---- MODULE Spec2Model ----
(***************************************************************************)
(* A model of the cbs-match matching engine: the assignment state machine  *)
(* (services/state_machine.py), the compatibility scorer, candidate-pair   *)
(* builder and stable-matching engine (services/matching.py), and the      *)
(* weekly run and lifecycle handlers that persist assignments (main.py),   *)
(* with blocking (routes/safety.py), account deletion (repo.py) and the    *)
(* seeding reset; survey reconciliation (services/survey_fingerprint.py,   *)
(* services/survey_reconciliation.py) and trait computation (traits.py).   *)
(*                                                                         *)
(* Numbers.  The scorer works on floats in [0,1].  The model keeps them in *)
(* fixed point: a trait dimension is an integer number of hundredths, a    *)
(* score an integer number of millionths (the code rounds every score to 6 *)
(* decimals).  User ids are integers; their order stands for the string    *)
(* order of the code's uuid strings.  Time is counted in days.             *)
(***************************************************************************)
EXTENDS Integers, Sequences, FiniteSets, TLC

VARIABLES
    assign,   \* weekly_match_assignment: [week, user] -> row (NoRow when absent)
    blocks,   \* user_block: set of <<blocker, blocked>>
    now,      \* the wall clock, in days
    pc,       \* position of the call being verified ("db" in the database spec)
    call,     \* arguments of the pure function being verified
    ret,      \* its result
    logs,     \* what a weekly run leaves beside the assignments, in the two
              \* tables a forced re-run clears: rows <<table, week, user>> of
              \* match_event (no_match) and notification_outbox (match_ready)
    txn,      \* the open database session of a weekly run, when it is followed
              \* statement by statement
    recon,    \* survey_reconciliation_state: the sequence of rows written
    survey    \* the other survey tables: survey_definition, the user's last
              \* survey_session with its answers, user_traits

vars == <<assign, blocks, now, pc, call, ret, logs, txn, recon, survey>>
dbVars == <<assign, blocks, now, logs, txn, recon, survey>>

None == "None"

(***************************************************************************)
(* services/state_machine.py                                               *)
(***************************************************************************)
Statuses == {"proposed", "revealed", "accepted", "declined", "expired", "blocked", "no_match"}
Actions == {"view", "accept", "decline", "expire", "other"}

\* A slip a maintainer could make: the expiry test written with > instead of >=.
transition_status_late_expiry(current, action, t, expires_at) ==
    IF current = "no_match" THEN "no_match"
    ELSE IF current \in {"proposed", "revealed"} /\ t > expires_at THEN "expired"
    ELSE IF action = "view" THEN (IF current = "proposed" THEN "revealed" ELSE current)
    ELSE IF action = "accept" THEN (IF current = "revealed" THEN "accepted" ELSE current)
    ELSE IF action = "decline" THEN (IF current = "revealed" THEN "declined" ELSE current)
    ELSE IF action = "expire" THEN (IF current \in {"proposed", "revealed"} THEN "expired" ELSE current)
    ELSE current

\* A slip a maintainer could make: "expire" applied whatever the current status.
transition_status_expire_any(current, action, t, expires_at) ==
    IF current = "no_match" THEN "no_match"
    ELSE IF current \in {"proposed", "revealed"} /\ t >= expires_at THEN "expired"
    ELSE IF action = "view" THEN (IF current = "proposed" THEN "revealed" ELSE current)
    ELSE IF action = "accept" THEN (IF current = "revealed" THEN "accepted" ELSE current)
    ELSE IF action = "decline" THEN (IF current = "revealed" THEN "declined" ELSE current)
    ELSE IF action = "expire" THEN "expired"
    ELSE current

\* A slip a maintainer could make: accept on a proposed row reveals it first.
transition_status_accept_reveals(current, action, t, expires_at) ==
    IF current = "no_match" THEN "no_match"
    ELSE IF current \in {"proposed", "revealed"} /\ t >= expires_at THEN "expired"
    ELSE IF action = "view" THEN (IF current = "proposed" THEN "revealed" ELSE current)
    ELSE IF action = "accept" THEN
        (IF current = "proposed" THEN "revealed"
         ELSE IF current = "revealed" THEN "accepted" ELSE current)
    ELSE IF action = "decline" THEN (IF current = "revealed" THEN "declined" ELSE current)
    ELSE IF action = "expire" THEN (IF current \in {"proposed", "revealed"} THEN "expired" ELSE current)
    ELSE current

transition_status(current, action, t, expires_at) ==
    IF current = "no_match" THEN "no_match"
    ELSE IF current \in {"proposed", "revealed"} /\ t >= expires_at THEN "expired"
    ELSE IF action = "view" THEN (IF current = "proposed" THEN "revealed" ELSE current)
    ELSE IF action = "accept" THEN
        (IF current = "revealed" THEN "accepted"
         ELSE IF current = "accepted" THEN "accepted" ELSE current)
    ELSE IF action = "decline" THEN
        (IF current = "revealed" THEN "declined"
         ELSE IF current = "declined" THEN "declined" ELSE current)
    ELSE IF action = "expire" THEN
        (IF current \in {"proposed", "revealed"} THEN "expired" ELSE current)
    ELSE current

(***************************************************************************)
(* services/matching.py: the compatibility scorer                          *)
(*                                                                         *)
(* A trait profile is a record standing for the code's dict: a key the     *)
(* dict lacks is a field the record lacks.  A value the code reads through *)
(* _to_float and finds None or non-numeric is modelled as a missing key,   *)
(* which _to_float treats alike (the default).                             *)
(***************************************************************************)
Abs(x) == IF x < 0 THEN -x ELSE x
Max(a, b) == IF a >= b THEN a ELSE b
Min(a, b) == IF a <= b THEN a ELSE b

RECURSIVE GCD(_, _)
GCD(a, b) == IF b = 0 THEN a ELSE GCD(b, a % b)

\* round(n/d) to the nearest integer, ties to even (Python's round)
RoundDiv(n, d) ==
    LET q == n \div d
        r == n % d
    IN  IF 2 * r < d THEN q
        ELSE IF 2 * r > d THEN q + 1
        ELSE IF q % 2 = 0 THEN q ELSE q + 1

RECURSIVE ISqrtFrom(_, _, _)
ISqrtFrom(n, lo, hi) ==
    IF lo >= hi THEN lo
    ELSE LET mid == (lo + hi + 1) \div 2
         IN  IF mid * mid <= n THEN ISqrtFrom(n, mid, hi) ELSE ISqrtFrom(n, lo, mid - 1)

\* floor of the square root
ISqrt(n) == ISqrtFrom(n, 0, 46340)

\* product of two fixed-point numbers in millionths (each at most 1000000),
\* kept within 32-bit integers
MulFix(a, b) == ((a \div 1000) * b) \div 1000 + ((a % 1000) * b) \div 1000000

Pct == 100              \* 1.0 in hundredths
Unit == 1000000         \* 1.0 in millionths
DEFAULT_DIM == 50       \* the neutral midpoint 0.5

\* config.py DEFAULT_MATCHING_CONFIG and the defaults of cfg.get in the scorer
ESCALATION_GATE == 95
ESCALATION_PENALTY_THRESHOLD == 70
ESCALATION_PENALTY_MULTIPLIER == 75
WITHDRAWAL_PENALTY_THRESHOLD == 70
WITHDRAWAL_PENALTY_MULTIPLIER == 85
MISMATCH_PENALTY_MULTIPLIER == 80
MISMATCH_PENALTY_THRESHOLD == 80
COMP_EXTREME_THRESHOLD == 75
COMP_EXTREME_FACTOR == 75
BIG5_WEIGHT == 70
CONFLICT_WEIGHT == 30
MODIFIER_PENALTY_SCALE == 35
MODIFIER_PENALTY_CAP == 60

HasKey(d, k) == k \in DOMAIN d

\* dict.get(k) or {}: the sub-dict, or the empty dict
Sub(traits, k) == IF HasKey(traits, k) THEN traits[k] ELSE [x \in {} |-> 0]

GetNum(d, k, default) == IF HasKey(d, k) THEN d[k] ELSE default

_dim(traits, key) == GetNum(Sub(traits, "dimensions"), key, DEFAULT_DIM)

\* _life(traits, "kids_intent", "unsure"), then str(): None becomes "None"
_life_kids_intent(traits) ==
    LET life == Sub(traits, "life")
        legacy == Sub(traits, "life_constraints")
    IN  IF HasKey(life, "kids_intent") THEN life["kids_intent"]
        ELSE IF HasKey(legacy, "kids_preference") THEN legacy["kids_preference"]
        ELSE "unsure"

HARD_YES == {"yes", "probably"}
HARD_NO == {"no", "probably_not"}

_kids_hard_mismatch(k1, k2) ==
    IF k1 = "" \/ k2 = "" THEN FALSE
    ELSE IF k1 = "unsure" \/ k2 = "unsure" THEN FALSE
    ELSE (k1 \in HARD_YES /\ k2 \in HARD_NO) \/ (k2 \in HARD_YES /\ k1 \in HARD_NO)

\* in hundredths
_sim(a, b) == Max(0, Pct - Abs(a - b))

\* in ten-thousandths: the base in hundredths times 1.0 or 0.75
_comp(a, b) ==
    LET base == Max(0, Pct - Abs((a + b) - Pct))
    IN  IF Abs(a - b) > COMP_EXTREME_THRESHOLD THEN base * COMP_EXTREME_FACTOR ELSE base * Pct

RECURSIVE SumSq(_, _, _)
SumSq(a, b, i) == IF i > Len(a) THEN 0 ELSE (a[i] - b[i]) * (a[i] - b[i]) + SumSq(a, b, i + 1)

\* in millionths; the square root is kept to 4 decimals
_vector_similarity(a, b) ==
    IF Len(a) = 0 \/ Len(b) = 0 \/ Len(a) # Len(b) THEN 0
    ELSE Max(0, Unit - 100 * ISqrt((SumSq(a, b, 1) * 10000) \div Len(a)))

MODIFIER_KEYS == <<"marriage", "nyc", "career_intensity", "faith", "social_lifestyle">>
MODIFIER_LIFE_KEY ==
    [marriage |-> "LA_MARRIAGE_01", nyc |-> "LA_LOC_01", career_intensity |-> "LA_CAREER_01",
     faith |-> "LA_FAITH_01", social_lifestyle |-> "LA_LIFESTYLE_01"]

\* one key's factor max(0, 1 - penalty), in millionths
ModifierFactor(u_traits, v_traits, mod_key) ==
    LET life_key == MODIFIER_LIFE_KEY[mod_key]
        u_pref == GetNum(Sub(u_traits, "life_preferences"), life_key, DEFAULT_DIM)
        v_pref == GetNum(Sub(v_traits, "life_preferences"), life_key, DEFAULT_DIM)
        mismatch == Abs(u_pref - v_pref)
        u_mod == Sub(Sub(u_traits, "modifiers"), mod_key)
        v_mod == Sub(Sub(v_traits, "modifiers"), mod_key)
        importance2 == GetNum(u_mod, "importance", DEFAULT_DIM) + GetNum(v_mod, "importance", DEFAULT_DIM)
        flexibility2 == GetNum(u_mod, "flexibility", DEFAULT_DIM) + GetNum(v_mod, "flexibility", DEFAULT_DIM)
        \* mismatch * importance * (1 - flexibility) * scale, in units of 1e-8
        raw == (mismatch * importance2 * (2 * Pct - flexibility2) * MODIFIER_PENALTY_SCALE) \div 4
        penalty == Min(MODIFIER_PENALTY_CAP * Unit, Max(0, raw))
    IN  Max(0, Unit - penalty \div Pct)

RECURSIVE ModifierProduct(_, _, _)
ModifierProduct(u_traits, v_traits, i) ==
    IF i = 0 THEN Unit
    ELSE MulFix(ModifierProduct(u_traits, v_traits, i - 1),
                ModifierFactor(u_traits, v_traits, MODIFIER_KEYS[i]))

_modifier_penalty(u_traits, v_traits) ==
    Max(0, Min(Unit, ModifierProduct(u_traits, v_traits, Len(MODIFIER_KEYS))))

BIG5_KEYS == <<"openness", "conscientiousness", "extraversion", "agreeableness", "neuroticism">>
CONFLICT_KEYS == <<"repair_willingness", "escalation", "cooldown_need", "grudge_tendency">>

VecOf(d, keys) == [i \in 1..Len(keys) |-> GetNum(d, keys[i], DEFAULT_DIM)]

\* the multiplier m/100 as a fraction in lowest terms
FracOf(m) == LET g == GCD(m, Pct) IN <<m \div g, Pct \div g>>

\* the penalties of the weighted path, in the order the code applies them
PenaltiesOf(u_traits, v_traits) ==
    LET escalation_u == _dim(u_traits, "escalation")
        escalation_v == _dim(v_traits, "escalation")
        withdrawal_u == _dim(u_traits, "withdrawal")
        withdrawal_v == _dim(v_traits, "withdrawal")
        p1 == IF escalation_u > ESCALATION_PENALTY_THRESHOLD /\ escalation_v > ESCALATION_PENALTY_THRESHOLD
              THEN <<[name |-> "two_escalators", mult |-> ESCALATION_PENALTY_MULTIPLIER]>> ELSE <<>>
        p2 == IF withdrawal_u > WITHDRAWAL_PENALTY_THRESHOLD /\ withdrawal_v > WITHDRAWAL_PENALTY_THRESHOLD
              THEN <<[name |-> "two_withdrawers", mult |-> WITHDRAWAL_PENALTY_MULTIPLIER]>> ELSE <<>>
        p3 == IF _dim(u_traits, "reassurance_need") > MISMATCH_PENALTY_THRESHOLD
                 /\ _dim(v_traits, "independence_need") > MISMATCH_PENALTY_THRESHOLD
              THEN <<[name |-> "reassurance_independence_u_to_v", mult |-> MISMATCH_PENALTY_MULTIPLIER]>> ELSE <<>>
        p4 == IF _dim(v_traits, "reassurance_need") > MISMATCH_PENALTY_THRESHOLD
                 /\ _dim(u_traits, "independence_need") > MISMATCH_PENALTY_THRESHOLD
              THEN <<[name |-> "reassurance_independence_v_to_u", mult |-> MISMATCH_PENALTY_MULTIPLIER]>> ELSE <<>>
    IN  p1 \o p2 \o p3 \o p4

\* total *= multiplier for each penalty in turn: the product of the multipliers
\* as a fraction <<numerator, denominator>>
RECURSIVE PenaltyFraction(_, _)
PenaltyFraction(ps, i) ==
    IF i = 0 THEN <<1, 1>>
    ELSE LET rest == PenaltyFraction(ps, i - 1)
             f == FracOf(ps[i].mult)
         IN  <<rest[1] * f[1], rest[2] * f[2]>>

\* the weighted blend before penalties, in millionths
WeightedBlend(u_traits, v_traits) ==
    LET values_similarity == _sim(_dim(u_traits, "worldview_alignment"), _dim(v_traits, "worldview_alignment")) * Pct
        emo_similarity == _sim(_dim(u_traits, "stability"), _dim(v_traits, "stability")) * Pct
        \* twice reassurance_vs_independence
        reassurance_vs_independence2 ==
            _comp(_dim(u_traits, "reassurance_need"), _dim(v_traits, "independence_need"))
            + _comp(_dim(v_traits, "reassurance_need"), _dim(u_traits, "independence_need"))
        text_similarity == _sim(_dim(u_traits, "text_sensitivity"), _dim(v_traits, "text_sensitivity")) * Pct
        drama_similarity == _sim(_dim(u_traits, "drama_avoidance"), _dim(v_traits, "drama_avoidance")) * Pct
        testing_similarity == _sim(_dim(u_traits, "testing_behavior"), _dim(v_traits, "testing_behavior")) * Pct
        \* twice approach_withdrawal
        approach_withdrawal2 ==
            _comp(_dim(u_traits, "approach"), _dim(v_traits, "withdrawal"))
            + _comp(_dim(v_traits, "approach"), _dim(u_traits, "withdrawal"))
        escalation_risk == (Pct - Max(_dim(u_traits, "escalation"), _dim(v_traits, "escalation"))) * Pct
        repair_similarity == _sim(_dim(u_traits, "repair_belief"), _dim(v_traits, "repair_belief")) * Pct
        structure_similarity == _sim(_dim(u_traits, "structure"), _dim(v_traits, "structure")) * Pct
        extraversion_comp == _comp(_dim(u_traits, "extraversion"), _dim(v_traits, "extraversion"))
        conscientiousness_comp == _comp(_dim(u_traits, "conscientiousness"), _dim(v_traits, "conscientiousness"))
        relocation_similarity == _sim(_dim(u_traits, "relocation_openness"), _dim(v_traits, "relocation_openness")) * Pct
        career_similarity == _sim(_dim(u_traits, "career_intensity"), _dim(v_traits, "career_intensity")) * Pct
        intentions_similarity == _sim(_dim(u_traits, "define_intentions_early"), _dim(v_traits, "define_intentions_early")) * Pct
    IN  22 * values_similarity
        + 12 * emo_similarity
        + 5 * reassurance_vs_independence2
        + 6 * text_similarity
        + 3 * drama_similarity
        + 3 * testing_similarity
        + 4 * approach_withdrawal2
        + 8 * escalation_risk
        + 4 * repair_similarity
        + 4 * structure_similarity
        + 6 * extraversion_comp
        + 6 * conscientiousness_comp
        + 3 * relocation_similarity
        + 3 * career_similarity
        + 2 * intentions_similarity

GateResult(gate, kids_ok) ==
    [score_total |-> 0, kids_hard_check |-> kids_ok, gates |-> <<gate>>, penalties |-> <<>>, path |-> "gate"]

LegacyResult(u_traits, v_traits) ==
    LET big5_similarity == _vector_similarity(VecOf(Sub(u_traits, "big5"), BIG5_KEYS),
                                              VecOf(Sub(v_traits, "big5"), BIG5_KEYS))
        conflict_similarity == _vector_similarity(VecOf(Sub(u_traits, "conflict_repair"), CONFLICT_KEYS),
                                                  VecOf(Sub(v_traits, "conflict_repair"), CONFLICT_KEYS))
        modifier_multiplier == _modifier_penalty(u_traits, v_traits)
        base_score == (BIG5_WEIGHT * big5_similarity + CONFLICT_WEIGHT * conflict_similarity) \div Pct
        total == Max(0, Min(Unit, MulFix(base_score, modifier_multiplier)))
    IN  [score_total |-> total, kids_hard_check |-> TRUE, gates |-> <<>>, penalties |-> <<>>, path |-> "legacy"]

WeightedResult(u_traits, v_traits) ==
    LET ps == PenaltiesOf(u_traits, v_traits)
        f == PenaltyFraction(ps, Len(ps))
        total == RoundDiv(WeightedBlend(u_traits, v_traits) * f[1], f[2])
    IN  [score_total |-> Max(0, Min(Unit, total)), kids_hard_check |-> TRUE, gates |-> <<>>,
         penalties |-> [i \in 1..Len(ps) |-> ps[i].name], path |-> "weighted"]

\* A slip a maintainer could make: the safety gate tested before the kids gate.
compute_compatibility_gate_order(u_traits, v_traits) ==
    IF _dim(u_traits, "escalation") > ESCALATION_GATE /\ _dim(v_traits, "escalation") > ESCALATION_GATE
    THEN GateResult("safety_escalation_gate", TRUE)
    ELSE IF _kids_hard_mismatch(_life_kids_intent(u_traits), _life_kids_intent(v_traits))
    THEN GateResult("kids_hard_conflict", FALSE)
    ELSE IF ~HasKey(u_traits, "dimensions") /\ ~HasKey(v_traits, "dimensions")
    THEN LegacyResult(u_traits, v_traits)
    ELSE WeightedResult(u_traits, v_traits)

\* A slip a maintainer could make: the legacy path chosen on the first profile alone.
compute_compatibility_legacy_by_first(u_traits, v_traits) ==
    IF _kids_hard_mismatch(_life_kids_intent(u_traits), _life_kids_intent(v_traits))
    THEN GateResult("kids_hard_conflict", FALSE)
    ELSE IF _dim(u_traits, "escalation") > ESCALATION_GATE /\ _dim(v_traits, "escalation") > ESCALATION_GATE
    THEN GateResult("safety_escalation_gate", TRUE)
    ELSE IF ~HasKey(u_traits, "dimensions")
    THEN LegacyResult(u_traits, v_traits)
    ELSE WeightedResult(u_traits, v_traits)

compute_compatibility(u_traits, v_traits) ==
    IF _kids_hard_mismatch(_life_kids_intent(u_traits), _life_kids_intent(v_traits))
    THEN GateResult("kids_hard_conflict", FALSE)
    ELSE IF _dim(u_traits, "escalation") > ESCALATION_GATE /\ _dim(v_traits, "escalation") > ESCALATION_GATE
    THEN GateResult("safety_escalation_gate", TRUE)
    ELSE IF ~HasKey(u_traits, "dimensions") /\ ~HasKey(v_traits, "dimensions")
    THEN LegacyResult(u_traits, v_traits)
    ELSE WeightedResult(u_traits, v_traits)

(***************************************************************************)
(* services/matching.py: candidate pairs                                   *)
(*                                                                         *)
(* A user is [user_id, gender_identity, seeking_genders, traits].  The raw *)
(* gender strings are drawn from RawGenders; str(v).strip().lower() is the *)
(* table StripLower over them.                                             *)
(***************************************************************************)
RawGenders == {"man", " Man", "woman", "WOMAN ", "nonbinary", "", "  "}

StripLower(v) ==
    CASE v \in {"man", " Man"} -> "man"
      [] v \in {"woman", "WOMAN "} -> "woman"
      [] v \in {"", "  "} -> ""
      [] OTHER -> v

\* None for None and for a string that is blank after strip()
_normalize_gender(value) ==
    IF value = None THEN None
    ELSE IF StripLower(value) = "" THEN None ELSE StripLower(value)

\* values is [is_list, items]: a list of raw strings (its items: None or a raw
\* string each), or anything that is not a list (None, when seeking is unset)
NotAList == [is_list |-> FALSE, items |-> <<>>]
ListOf(items) == [is_list |-> TRUE, items |-> items]

_parse_seeking(values) ==
    IF ~values.is_list THEN {}
    ELSE {_normalize_gender(values.items[i]) : i \in 1..Len(values.items)} \ {None}

\* A slip a maintainer could make: a one-sided preference test.
_gender_preference_compatible_one_sided(u, v) ==
    LET u_gender == _normalize_gender(u.gender_identity)
        v_gender == _normalize_gender(v.gender_identity)
        u_seeking == _parse_seeking(u.seeking_genders)
        v_seeking == _parse_seeking(v.seeking_genders)
    IN  IF u_gender = None \/ v_gender = None \/ u_seeking = {} \/ v_seeking = {} THEN FALSE
        ELSE v_gender \in u_seeking

_gender_preference_compatible(u, v) ==
    LET u_gender == _normalize_gender(u.gender_identity)
        v_gender == _normalize_gender(v.gender_identity)
        u_seeking == _parse_seeking(u.seeking_genders)
        v_seeking == _parse_seeking(v.seeking_genders)
    IN  IF u_gender = None \/ v_gender = None \/ u_seeking = {} \/ v_seeking = {} THEN FALSE
        ELSE (v_gender \in u_seeking) /\ (u_gender \in v_seeking)

canonical_pair(user_a, user_b) == IF user_a <= user_b THEN <<user_a, user_b>> ELSE <<user_b, user_a>>

\* the index pairs (i, j), i < j, in the order of the two nested loops
RECURSIVE PairIndexSeq(_, _, _)
PairIndexSeq(n, i, j) ==
    IF i >= n THEN <<>>
    ELSE IF j > n THEN PairIndexSeq(n, i + 1, i + 2)
    ELSE <<<<i, j>>>> \o PairIndexSeq(n, i, j + 1)

MatchCandidate(u, v) ==
    LET comp == compute_compatibility(u.traits, v.traits)
    IN  [user_id |-> u.user_id, matched_user_id |-> v.user_id,
         score_total |-> comp.score_total, gates |-> comp.gates]

\* A slip a maintainer could make: the exclusion sets probed with the pair as
\* listed instead of its canonical form.
CandidateKept_raw_key(u, v, recent_pairs, blocked_pairs) ==
    /\ <<v.user_id, u.user_id>> \notin recent_pairs
    /\ <<v.user_id, u.user_id>> \notin blocked_pairs
    /\ _gender_preference_compatible(u, v)

\* the three tests of the loop body that let a pair through
CandidateKept(u, v, recent_pairs, blocked_pairs) ==
    /\ canonical_pair(u.user_id, v.user_id) \notin recent_pairs
    /\ canonical_pair(u.user_id, v.user_id) \notin blocked_pairs
    /\ _gender_preference_compatible(u, v)

RECURSIVE CandidatesFrom(_, _, _, _, _)
CandidatesFrom(users, idx, k, recent_pairs, blocked_pairs) ==
    IF k > Len(idx) THEN <<>>
    ELSE LET u == users[idx[k][1]]
             v == users[idx[k][2]]
             rest == CandidatesFrom(users, idx, k + 1, recent_pairs, blocked_pairs)
         IN  IF CandidateKept(u, v, recent_pairs, blocked_pairs)
             THEN <<MatchCandidate(u, v)>> \o rest
             ELSE rest

build_candidate_pairs(users, recent_pairs, blocked_pairs) ==
    CandidatesFrom(users, PairIndexSeq(Len(users), 1, 2), 1, recent_pairs, blocked_pairs)

(***************************************************************************)
(* services/matching.py: preference lists and the two matching paths       *)
(***************************************************************************)
\* sha256 of "min|max|week" read as a number in [0,1) and scaled by 1e-6: below
\* the resolution of a score, so it only orders equal scores.  The digest is
\* modelled by a small mixing function with EPS_RANGE values; week_start varies
\* the order it gives, and two pairs may collide.
EPS_RANGE == 8

_stable_hash_eps(a, b, week_start) ==
    ((Min(a, b) * 5 + Max(a, b) * 3 + week_start) * 7 + Min(a, b) * Max(a, b)) % EPS_RANGE

\* the entries (partner, score) appended to by_user[uid]; the pairs the builder
\* returns name each unordered pair once, so the list has no repeated entry
PrefEntries(uid, pairs, min_score, week_start) ==
    LET kept == {k \in 1..Len(pairs) : pairs[k].score_total >= min_score}
        score(k) == pairs[k].score_total * EPS_RANGE
                    + _stable_hash_eps(pairs[k].user_id, pairs[k].matched_user_id, week_start)
    IN  {<<pairs[k].matched_user_id, score(k)>> : k \in {k \in kept : pairs[k].user_id = uid}}
        \cup {<<pairs[k].user_id, score(k)>> : k \in {k \in kept : pairs[k].matched_user_id = uid}}

\* sort key (-score, id)
PrefBefore(x, y) == x[2] > y[2] \/ (x[2] = y[2] /\ x[1] <= y[1])

\* vals.sort(...); [v for v, _ in vals[:top_k]]
RECURSIVE TopSorted(_, _)
TopSorted(vals, top_k) ==
    IF vals = {} \/ top_k <= 0 THEN <<>>
    ELSE LET best == CHOOSE x \in vals : \A y \in vals : PrefBefore(x, y)
         IN  <<best[1]>> \o TopSorted(vals \ {best}, top_k - 1)

UserIds(users) == {users[i].user_id : i \in 1..Len(users)}

_build_preference_lists(users, pairs, min_score, top_k, week_start) ==
    [uid \in UserIds(users) |-> TopSorted(PrefEntries(uid, pairs, min_score, week_start), top_k)]

_is_bipartite_hetero_pool(users) ==
    \A i \in 1..Len(users) :
        LET g == _normalize_gender(users[i].gender_identity)
            s == _parse_seeking(users[i].seeking_genders)
        IN  /\ ~(g = "man" /\ s # {"woman"})
            /\ ~(g = "woman" /\ s # {"man"})
            /\ g \in {"man", "woman"}

IdsWhere(users, gender) ==
    LET keep(u) == _normalize_gender(u.gender_identity) = gender
        kept == SelectSeq(users, keep)
    IN  [i \in 1..Len(kept) |-> kept[i].user_id]

\* list.index, or 10**9 when absent
NOT_RANKED == 1000000000
RankIn(pl, candidate) ==
    IF \E i \in 1..Len(pl) : pl[i] = candidate
    THEN (CHOOSE i \in 1..Len(pl) : pl[i] = candidate /\ \A j \in 1..(i - 1) : pl[j] # candidate) - 1
    ELSE NOT_RANKED

PrefsOf(prefs, uid) == IF uid \in DOMAIN prefs THEN prefs[uid] ELSE <<>>

\* engaged_to is an insertion-ordered dict woman -> man: a sequence of <<w, m>>
EngagedMan(engaged_to, w) ==
    IF \E i \in 1..Len(engaged_to) : engaged_to[i][1] = w
    THEN (CHOOSE e \in {engaged_to[i] : i \in 1..Len(engaged_to)} : e[1] = w)[2]
    ELSE 0

SetEngaged(engaged_to, w, m) ==
    IF \E i \in 1..Len(engaged_to) : engaged_to[i][1] = w
    THEN [i \in 1..Len(engaged_to) |-> IF engaged_to[i][1] = w THEN <<w, m>> ELSE engaged_to[i]]
    ELSE Append(engaged_to, <<w, m>>)

\* the while loop of _stable_bipartite_match; returns engaged_to
RECURSIVE BipartiteLoop(_, _, _, _, _)
BipartiteLoop(free, next_idx, engaged_to, prefs, women) ==
    IF free = <<>> THEN engaged_to
    ELSE LET m == Head(free)
             rest == Tail(free)
             p == PrefsOf(prefs, m)
         IN  IF next_idx[m] >= Len(p) THEN BipartiteLoop(rest, next_idx, engaged_to, prefs, women)
             ELSE LET w == p[next_idx[m] + 1]
                      idx2 == [next_idx EXCEPT ![m] = @ + 1]
                      current == EngagedMan(engaged_to, w)
                  IN  IF w \notin women
                      THEN BipartiteLoop(Append(rest, m), idx2, engaged_to, prefs, women)
                      ELSE IF current = 0
                      THEN BipartiteLoop(rest, idx2, SetEngaged(engaged_to, w, m), prefs, women)
                      ELSE IF RankIn(PrefsOf(prefs, w), m) < RankIn(PrefsOf(prefs, w), current)
                      THEN BipartiteLoop(Append(rest, current), idx2, SetEngaged(engaged_to, w, m), prefs, women)
                      ELSE BipartiteLoop(Append(rest, m), idx2, engaged_to, prefs, women)

\* the list of (m, w), in the order the women were first engaged
_stable_bipartite_match(users, prefs) ==
    LET men == IdsWhere(users, "man")
        women == IdsWhere(users, "woman")
        menSet == {men[i] : i \in 1..Len(men)}
        womenSet == {women[i] : i \in 1..Len(women)}
        engaged_to == BipartiteLoop(men, [m \in menSet |-> 0], <<>>, prefs, womenSet)
    IN  [i \in 1..Len(engaged_to) |-> <<engaged_to[i][2], engaged_to[i][1]>>]

\* ascending sequence of a set of integers: sorted(...)
RECURSIVE SortedSeq(_)
SortedSeq(S) ==
    IF S = {} THEN <<>>
    ELSE LET lo == CHOOSE x \in S : \A y \in S : x <= y
         IN  <<lo>> \o SortedSeq(S \ {lo})

\* held_by is a dict accepter -> proposer: a function on all users, 0 when absent
\* one pass of "for proposer in sorted(list(unmatched))", from position k;
\* returns [next_idx, held_by, active]
RECURSIVE GeneralPass(_, _, _, _, _, _)
GeneralPass(order, k, next_idx, held_by, active, prefs) ==
    IF k > Len(order) THEN [next_idx |-> next_idx, held_by |-> held_by, active |-> active]
    ELSE LET proposer == order[k]
             pref == PrefsOf(prefs, proposer)
         IN  IF next_idx[proposer] >= Len(pref)
             THEN GeneralPass(order, k + 1, next_idx, held_by, active, prefs)
             ELSE LET target == pref[next_idx[proposer] + 1]
                      idx2 == [next_idx EXCEPT ![proposer] = @ + 1]
                      current == held_by[target]
                      held2 == IF current = 0 THEN [held_by EXCEPT ![target] = proposer]
                               ELSE IF RankIn(PrefsOf(prefs, target), proposer)
                                       < RankIn(PrefsOf(prefs, target), current)
                               THEN [held_by EXCEPT ![target] = proposer]
                               ELSE held_by
                  IN  GeneralPass(order, k + 1, idx2, held2, TRUE, prefs)

\* "while active": passes until one makes no proposal
RECURSIVE GeneralRounds(_, _, _, _)
GeneralRounds(order, next_idx, held_by, prefs) ==
    LET r == GeneralPass(order, 1, next_idx, held_by, FALSE, prefs)
    IN  IF r.active THEN GeneralRounds(order, r.next_idx, r.held_by, prefs) ELSE r.held_by

InSeq(x, sq) == \E i \in 1..Len(sq) : sq[i] = x

\* "for target in sorted(held_by.keys())": the pairs kept, as a set
RECURSIVE GeneralPairs(_, _, _, _, _)
GeneralPairs(targets, k, used, held_by, prefs) ==
    IF k > Len(targets) THEN {}
    ELSE LET target == targets[k]
             proposer == held_by[target]
         IN  IF proposer \in used \/ target \in used
             THEN GeneralPairs(targets, k + 1, used, held_by, prefs)
             ELSE IF held_by[proposer] = target \/ InSeq(target, PrefsOf(prefs, proposer))
             THEN {canonical_pair(proposer, target)}
                  \cup GeneralPairs(targets, k + 1, used \cup {proposer, target}, held_by, prefs)
             ELSE GeneralPairs(targets, k + 1, used, held_by, prefs)

\* the held_by dict at the end of the proposal rounds
GeneralHeldBy(users, prefs) ==
    LET ids == UserIds(users)
    IN  GeneralRounds(SortedSeq(ids), [u \in ids |-> 0], [u \in ids |-> 0], prefs)

\* sorted(set(pairs)): an ascending list of canonical pairs, kept as the set
_stable_general_match(users, prefs) ==
    LET held_by == GeneralHeldBy(users, prefs)
        targets == SortedSeq({t \in UserIds(users) : held_by[t] # 0})
    IN  GeneralPairs(targets, 1, {}, held_by, prefs)

SeqToSet(sq) == {sq[i] : i \in 1..Len(sq)}

\* pair_map.get(canonical_pair(a, b)): the last candidate listed for the pair
PairMapGet(pairs, key) ==
    LET hits == {k \in 1..Len(pairs) : canonical_pair(pairs[k].user_id, pairs[k].matched_user_id) = key}
    IN  IF hits = {} THEN None ELSE pairs[CHOOSE k \in hits : \A j \in hits : j <= k]

\* sort key (-score_total, user_id, matched_user_id)
AssignmentBefore(x, y) ==
    \/ x.score_total > y.score_total
    \/ x.score_total = y.score_total /\ x.user_id < y.user_id
    \/ x.score_total = y.score_total /\ x.user_id = y.user_id /\ x.matched_user_id <= y.matched_user_id

RECURSIVE SortAssignments(_)
SortAssignments(S) ==
    IF S = {} THEN <<>>
    ELSE LET best == CHOOSE x \in S : \A y \in S : AssignmentBefore(x, y)
         IN  <<best>> \o SortAssignments(S \ {best})

\* chosen of stable_match: the pairs the selected path returns, as a set
ChosenPairs(users, prefs, mode) ==
    IF mode = "stable_bipartite_if_possible" /\ _is_bipartite_hetero_pool(users)
    THEN SeqToSet(_stable_bipartite_match(users, prefs))
    ELSE _stable_general_match(users, prefs)

stable_match(users, pairs, min_score, top_k, mode, week_start_date) ==
    LET prefs == _build_preference_lists(users, pairs, min_score, top_k, week_start_date)
        chosen == ChosenPairs(users, prefs, mode)
        found == {c \in chosen : \E k \in 1..Len(pairs) :
                     canonical_pair(pairs[k].user_id, pairs[k].matched_user_id) = canonical_pair(c[1], c[2])}
        kept == {PairMapGet(pairs, canonical_pair(c[1], c[2])) : c \in found}
    IN  SortAssignments({p \in kept : p.score_total >= min_score})

(***************************************************************************)
(* Trait profiles the scorer is run on.  A dimension takes the values a    *)
(* Likert answer normalises to, (v-1)/4 for v in 1..5.                     *)
(***************************************************************************)
DimLevels == {0, 25, 50, 75, 100}
KidsAnswers == {"yes", "probably", "unsure", "probably_not", "no"}

\* a profile of the current schema (traits.py compute_traits_match_core_v3)
V3Traits(kids, esc, wd, reas, ind, x) ==
    [traits_version |-> 3,
     life |-> [kids_intent |-> kids],
     dimensions |->
        [worldview_alignment |-> x, stability |-> x, reassurance_need |-> reas,
         independence_need |-> ind, text_sensitivity |-> x, drama_avoidance |-> x,
         testing_behavior |-> x, approach |-> x, withdrawal |-> wd, escalation |-> esc,
         repair_belief |-> x, structure |-> x, extraversion |-> x, conscientiousness |-> x,
         relocation_openness |-> x, career_intensity |-> x, define_intentions_early |-> x]]

\* a profile of the older schema (the shape the legacy path reads)
LegacyTraits(kids, o, imp) ==
    [traits_version |-> 2,
     big5 |-> [openness |-> o, conscientiousness |-> 50, extraversion |-> o,
               agreeableness |-> 50, neuroticism |-> 50],
     conflict_repair |-> [repair_willingness |-> 75, escalation |-> 25,
                          cooldown_need |-> 50, grudge_tendency |-> 25],
     life_constraints |-> [kids_preference |-> kids],
     life_preferences |-> [LA_MARRIAGE_01 |-> o, LA_LOC_01 |-> 50, LA_CAREER_01 |-> 75,
                           LA_FAITH_01 |-> 25, LA_LIFESTYLE_01 |-> 50],
     modifiers |-> [marriage |-> [importance |-> imp, flexibility |-> 50],
                    nyc |-> [importance |-> 50, flexibility |-> 50]]]

\* a profile with no scoring key at all (traits = {} in the eligibility row)
BareTraits == [traits_version |-> 2]

ScoreProfiles ==
    {V3Traits(k, e, 50, 50, 50, 50) : k \in KidsAnswers, e \in {50, 100}}
    \cup {V3Traits("yes", e, w, r, i, x) :
            e \in {50, 75, 100}, w \in {50, 75}, r \in {50, 100}, i \in {50, 100}, x \in {0, 50, 100}}
    \cup {LegacyTraits(k, o, imp) : k \in KidsAnswers \cup {None}, o \in {25, 75}, imp \in {50, 100}}
    \cup {BareTraits}

(***************************************************************************)
(* The database: weekly_match_assignment and user_block                    *)
(***************************************************************************)
NumUsers == 4
MaxNow == 3
DAYS_PER_WEEK == 7
MATCH_EXPIRY_HOURS == 72
HOURS_PER_DAY == 24

Users == 1..NumUsers
\* get_week_start_date: the Monday of the week of t
WeekStart(t) == t - (t % DAYS_PER_WEEK)
Weeks == {WeekStart(t) : t \in 0..MaxNow}

NoRow == [status |-> "absent", matched_user_id |-> 0, expires_at |-> 0, reason |-> None]

DbEmpty ==
    /\ assign = [k \in Weeks \X Users |-> NoRow]
    /\ blocks = {}
    /\ now = 0
    /\ logs = {}
    /\ txn = [pc |-> "idle"]
    /\ recon = <<>>
    /\ survey = [definition |-> <<>>, session |-> <<>>, user_traits |-> <<>>]

(***************************************************************************)
(* The pure functions on their own: the arguments are drawn in the initial *)
(* state and one step applies the function.                                *)
(***************************************************************************)
MaxTime == 3

InitSM ==
    /\ DbEmpty
    /\ pc = "transition_status"
    /\ call \in [current : Statuses, action : Actions, now : 0..MaxTime, expires_at : 0..MaxTime]
    /\ ret = None

CallTransitionStatus ==
    /\ pc = "transition_status"
    /\ ret' = transition_status(call.current, call.action, call.now, call.expires_at)
    /\ pc' = "returned"
    /\ UNCHANGED <<call, dbVars>>

\* the same action applied once more, at the same instant, to the status the
\* first application returned
CallTransitionStatusAgain ==
    /\ pc = "returned"
    /\ ret' = transition_status(ret, call.action, call.now, call.expires_at)
    /\ call' = [current |-> ret, action |-> call.action, now |-> call.now,
                expires_at |-> call.expires_at, first_current |-> call.current]
    /\ pc' = "reapplied"
    /\ UNCHANGED dbVars

NextSM ==
    \/ CallTransitionStatus
    \/ CallTransitionStatusAgain
SpecSM == InitSM /\ [][NextSM]_vars

InitScore ==
    /\ DbEmpty
    /\ pc = "compute_compatibility"
    /\ call \in [u_traits : ScoreProfiles, v_traits : ScoreProfiles]
    /\ ret = None

\* the scorer applied to the pair in both argument orders
CallComputeCompatibility ==
    /\ pc = "compute_compatibility"
    /\ ret' = [uv |-> compute_compatibility(call.u_traits, call.v_traits),
               vu |-> compute_compatibility(call.v_traits, call.u_traits)]
    /\ pc' = "returned"
    /\ UNCHANGED <<call, dbVars>>

NextScore == CallComputeCompatibility
SpecScore == InitScore /\ [][NextScore]_vars

(***************************************************************************)
(* The candidate builder and the matching engine on their own: a pool, the *)
(* exclusion sets and the knobs are drawn in the initial state; one step   *)
(* builds the candidate pairs, the next runs stable_match over them, as    *)
(* repo_run_weekly_matching does.                                          *)
(***************************************************************************)
PoolSize == 4
MaxTopK == 2
MIN_SCORE == 600000
MATCH_TOP_K == 60
MatchModes == {"stable_bipartite_if_possible", "general"}
MatchWeeks == {0, 7}

PoolIds == 1..PoolSize
CanonicalPairs(ids) == {<<a, b>> \in ids \X ids : a < b}

TraitC == V3Traits("yes", 50, 50, 50, 50, 50)
TraitX0 == V3Traits("yes", 50, 50, 50, 50, 0)
TraitX75 == V3Traits("unsure", 50, 50, 50, 50, 75)
TraitN == V3Traits("no", 50, 50, 50, 50, 50)

UserRow(uid, gender_identity, seeking_genders, traits) ==
    [user_id |-> uid, gender_identity |-> gender_identity,
     seeking_genders |-> seeking_genders, traits |-> traits]

\* men seeking only women and women seeking only men, by parity of the id
HeteroUser(uid, traits) ==
    IF uid % 2 = 1 THEN UserRow(uid, "man", ListOf(<<"woman">>), traits)
    ELSE UserRow(uid, "woman", ListOf(<<"man">>), traits)

\* identity and seeking as a profile row may hold them
RegularGenders ==
    {<<"man", ListOf(<<"woman">>)>>,
     <<"WOMAN ", ListOf(<<" Man", "nonbinary">>)>>,
     <<"nonbinary", ListOf(<<"man", "woman", "nonbinary">>)>>}
IrregularGenders ==
    {<<None, ListOf(<<"man", "woman">>)>>,
     <<"  ", ListOf(<<"man", "woman">>)>>,
     <<"woman", NotAList>>,
     <<"man", ListOf(<<>>)>>,
     <<"nonbinary", ListOf(<<None, "">>)>>}

\* the eligible pool in the order the query returned it: by id, or reversed
Ordered(rows, reversed) ==
    IF reversed THEN [i \in 1..Len(rows) |-> rows[Len(rows) + 1 - i]] ELSE rows

HeteroPools ==
    {Ordered([i \in PoolIds |-> HeteroUser(i, t[i])], r) :
        t \in [PoolIds -> {TraitC, TraitX0, TraitX75}], r \in BOOLEAN}

MixedPools ==
    {[i \in PoolIds |-> UserRow(i, g[i][1], g[i][2], IF i % 2 = 1 THEN TraitC ELSE TraitX75)] :
        g \in [PoolIds -> RegularGenders]}
    \cup {[i \in PoolIds |-> IF i = k THEN UserRow(i, x[1], x[2], TraitC)
                             ELSE UserRow(i, "nonbinary", ListOf(<<"nonbinary">>), TraitN)] :
            k \in PoolIds, x \in IrregularGenders}

\* the recency set and the blocked set: canonical pairs, as
\* fetch_recent_pairs_for_tenant and get_block_pairs_for_matching build them
NoExclusion == [recent_pairs |-> {}, blocked_pairs |-> {}]
Exclusions ==
    {NoExclusion}
    \cup {[recent_pairs |-> {p}, blocked_pairs |-> {}] : p \in CanonicalPairs(PoolIds)}
    \cup {[recent_pairs |-> {}, blocked_pairs |-> {p}] : p \in CanonicalPairs(PoolIds)}
    \cup {[recent_pairs |-> {<<1, 2>>}, blocked_pairs |-> {p}] : p \in CanonicalPairs(2..3)}

MatchCall(users, x, top_k, mode, week_start_date) ==
    [users |-> users, recent_pairs |-> x.recent_pairs, blocked_pairs |-> x.blocked_pairs,
     min_score |-> MIN_SCORE, top_k |-> top_k, mode |-> mode, week_start_date |-> week_start_date]

MatchCalls ==
    \* two-sided pools of every trait mix, under every list length
    {MatchCall(us, NoExclusion, k, m, w) :
        us \in HeteroPools, k \in 1..MaxTopK, m \in MatchModes, w \in MatchWeeks}
    \* a two-sided pool under every exclusion
    \cup {MatchCall(Ordered([i \in PoolIds |-> HeteroUser(i, TraitC)], r), x, MATCH_TOP_K, m, 0) :
            r \in BOOLEAN, x \in Exclusions, m \in MatchModes}
    \* pools of every gender and seeking mix
    \cup {MatchCall(us, x, MATCH_TOP_K, m, 0) :
            us \in MixedPools, m \in MatchModes,
            x \in {NoExclusion, [recent_pairs |-> {<<1, 2>>}, blocked_pairs |-> {<<2, 3>>}]}}

InitMatch ==
    /\ DbEmpty
    /\ pc = "build_candidate_pairs"
    /\ call \in MatchCalls
    /\ ret = [pairs |-> <<>>, assignments |-> <<>>]

CallBuildCandidatePairs ==
    /\ pc = "build_candidate_pairs"
    /\ ret' = [ret EXCEPT !.pairs = build_candidate_pairs(call.users, call.recent_pairs, call.blocked_pairs)]
    /\ pc' = "stable_match"
    /\ UNCHANGED <<call, dbVars>>

CallStableMatch ==
    /\ pc = "stable_match"
    /\ ret' = [ret EXCEPT !.assignments =
                  stable_match(call.users, ret.pairs, call.min_score, call.top_k, call.mode,
                               call.week_start_date)]
    /\ pc' = "returned"
    /\ UNCHANGED <<call, dbVars>>

NextMatch == CallBuildCandidatePairs \/ CallStableMatch
SpecMatch == InitMatch /\ [][NextMatch]_vars

(***************************************************************************)
(* main.py: the weekly run and the lifecycle handlers over the database.   *)
(* One tenant; each handler runs in one transaction, one after the other.  *)
(* The eligible pool of a run is what fetch_eligible_users finds at that   *)
(* moment: surveys are completed and matching is paused between runs, so a *)
(* run draws its pool.  call keeps the pool and week of the last run that  *)
(* wrote assignments, ret the counts the last run returned.                *)
(***************************************************************************)
LOOKBACK_WEEKS == 6
\* config.py: the mode of a deployment that sets no MATCH_ALGO_MODE
MATCH_ALGO_MODE == "stable_bipartite_if_possible"
NO_MATCH_REASON == "below_min_score_or_no_candidate"

PoolWorlds == {"hetero", "mixed"}

\* the traits on file for a user
DbTraits(world, uid) ==
    CASE uid % 4 = 1 -> TraitC
      [] uid % 4 = 2 -> TraitC
      [] uid % 4 = 3 -> TraitX75
      [] OTHER -> IF world = "hetero" THEN TraitX75 ELSE TraitX0

\* the profile on file for a user: two-sided in the world "hetero" (the run
\* takes the bipartite path), of three kinds in the world "mixed" (the general
\* path)
DbUser(world, uid) ==
    IF world = "hetero" THEN HeteroUser(uid, DbTraits(world, uid))
    ELSE CASE uid % 3 = 1 -> UserRow(uid, "man", ListOf(<<"woman">>), DbTraits(world, uid))
           [] uid % 3 = 2 -> UserRow(uid, "woman", ListOf(<<"man", "nonbinary">>), DbTraits(world, uid))
           [] OTHER -> UserRow(uid, "nonbinary", ListOf(<<"man", "woman", "nonbinary">>), DbTraits(world, uid))

\* the rows of the eligibility query, listed by id
fetch_eligible_users(world, eligible) ==
    LET ids == SortedSeq(eligible)
    IN  [i \in 1..Len(ids) |-> DbUser(world, ids[i])]

fetch_recent_pairs_for_tenant(a, week_start_date, lookback_weeks) ==
    {canonical_pair(k[2], a[k].matched_user_id) :
        k \in {k \in DOMAIN a :
                 /\ k[1] < week_start_date
                 /\ k[1] >= week_start_date - DAYS_PER_WEEK * lookback_weeks
                 /\ a[k].status \notin {"absent", "no_match"}
                 /\ a[k].matched_user_id # 0}}

get_block_pairs_for_matching(b) == {canonical_pair(x[1], x[2]) : x \in b}

is_blocked_pair(b, user_a, user_b) == <<user_a, user_b>> \in b \/ <<user_b, user_a>> \in b

\* candidate generation, scoring and stable matching of one run
WeeklyMatching(world, eligible, week_start, recent_pairs, blocked_pairs) ==
    LET users == fetch_eligible_users(world, eligible)
        pairs == build_candidate_pairs(users, recent_pairs, blocked_pairs)
    IN  stable_match(users, pairs, MIN_SCORE, MATCH_TOP_K, MATCH_ALGO_MODE, week_start)

\* who is eligible when a run starts: everybody, or all but one or two users
\* (paused, or with no completed survey)
MaxAway == 2
EligibleSets == {e \in SUBSET Users : Cardinality(Users \ e) <= MaxAway}

\* the pools a run may find, each with the matching of a run that excludes
\* no recent pair, computed once
RunsOver(eligibles, blockeds) ==
    {[world |-> w, eligible |-> e, week_start |-> ws, blocked_pairs |-> b,
      assignments |-> WeeklyMatching(w, e, ws, {}, b)] :
        w \in PoolWorlds, e \in eligibles, ws \in Weeks, b \in blockeds}

PlainRuns == RunsOver(EligibleSets, {{}})

AssignmentsOfRun(pool, recent_pairs, blocked_pairs) ==
    IF recent_pairs = {} /\ blocked_pairs = pool.blocked_pairs THEN pool.assignments
    ELSE WeeklyMatching(pool.world, pool.eligible, pool.week_start, recent_pairs, blocked_pairs)

\* INSERT ... ON CONFLICT (week_start_date, user_id) DO NOTHING
InsertRow(a, week_start_date, user_id, row) ==
    IF a[<<week_start_date, user_id>>].status # "absent" THEN a
    ELSE [a EXCEPT ![<<week_start_date, user_id>>] = row]

ProposedRow(matched_user_id, expires_at) ==
    [status |-> "proposed", matched_user_id |-> matched_user_id, expires_at |-> expires_at, reason |-> None]
NoMatchRow(expires_at) ==
    [status |-> "no_match", matched_user_id |-> 0, expires_at |-> expires_at, reason |-> NO_MATCH_REASON]

RECURSIVE InsertPairs(_, _, _, _, _)
InsertPairs(a, week_start_date, expires_at, assignments, k) ==
    IF k > Len(assignments) THEN a
    ELSE LET pair == assignments[k]
             a1 == InsertRow(a, week_start_date, pair.user_id, ProposedRow(pair.matched_user_id, expires_at))
             a2 == InsertRow(a1, week_start_date, pair.matched_user_id, ProposedRow(pair.user_id, expires_at))
         IN  InsertPairs(a2, week_start_date, expires_at, assignments, k + 1)

RECURSIVE InsertUnmatched(_, _, _, _)
InsertUnmatched(a, week_start_date, expires_at, ids) ==
    IF ids = {} THEN a
    ELSE LET uid == CHOOSE x \in ids : TRUE
         IN  InsertUnmatched(InsertRow(a, week_start_date, uid, NoMatchRow(expires_at)),
                             week_start_date, expires_at, ids \ {uid})

\* A slip a maintainer could make: only the first direction of a pair inserted.
RECURSIVE InsertPairs_one_direction(_, _, _, _, _)
InsertPairs_one_direction(a, week_start_date, expires_at, assignments, k) ==
    IF k > Len(assignments) THEN a
    ELSE InsertPairs_one_direction(
             InsertRow(a, week_start_date, assignments[k].user_id,
                       ProposedRow(assignments[k].matched_user_id, expires_at)),
             week_start_date, expires_at, assignments, k + 1)

create_weekly_assignments_one_direction(a, week_start_date, expires_at, assignments, unmatched_user_ids) ==
    InsertUnmatched(InsertPairs_one_direction(a, week_start_date, expires_at, assignments, 1),
                    week_start_date, expires_at, unmatched_user_ids)

\* the table after the inserts; the count it returns is
\* 2 * Len(assignments) + Cardinality(unmatched_user_ids)
create_weekly_assignments(a, week_start_date, expires_at, assignments, unmatched_user_ids) ==
    InsertUnmatched(InsertPairs(a, week_start_date, expires_at, assignments, 1),
                    week_start_date, expires_at, unmatched_user_ids)

\* A slip a maintainer could make: the unmatched set computed only when no
\* pair was selected.
UnmatchedUserIds_only_when_no_pair(users, assignments) ==
    IF assignments # <<>> THEN {} ELSE UserIds(users)

\* main.py 850-855: the users outside every selected pair
UnmatchedUserIds(users, assignments) ==
    LET matched_users == UNION {{assignments[k].user_id, assignments[k].matched_user_id} :
                                   k \in 1..Len(assignments)}
    IN  {users[i].user_id : i \in 1..Len(users)} \ matched_users

NoRun == [week_start_date |-> 0, users |-> {}]

Init ==
    /\ DbEmpty
    /\ pc = "db"
    /\ call = NoRun
    /\ ret = [created_assignments |-> 0, deleted |-> 0]

\* A slip a maintainer could make: only the rows of pairs counted.
RowsOfWeek_pairs_only(a, week_start_date) ==
    {k \in DOMAIN a : k[1] = week_start_date /\ a[k].status # "absent" /\ a[k].matched_user_id # 0}

RowsOfWeek(a, week_start_date) == {k \in DOMAIN a : k[1] = week_start_date /\ a[k].status # "absent"}

\* the statements of a run that is past the early return, over the pool it
\* reads: the week's DELETEs when rows exist (then force is set), the
\* matching, create_weekly_assignments, and the users of the selected pairs
\* in the order the run notifies them
RunPlanFor(pool, a, l, b, week_start, t) ==
    LET expires_at == t + MATCH_EXPIRY_HOURS \div HOURS_PER_DAY
        existing == Cardinality(RowsOfWeek(a, week_start))
        cleared == [k \in DOMAIN a |-> IF k[1] = week_start THEN NoRow ELSE a[k]]
        users == fetch_eligible_users(pool.world, pool.eligible)
        recent_pairs == fetch_recent_pairs_for_tenant(cleared, week_start, LOOKBACK_WEEKS)
        blocked_pairs == get_block_pairs_for_matching(b)
        assignments == AssignmentsOfRun(pool, recent_pairs, blocked_pairs)
        unmatched_user_ids == UnmatchedUserIds(users, assignments)
    IN  [week_start_date |-> week_start,
         users |-> UserIds(users),
         assign |-> create_weekly_assignments(cleared, week_start, expires_at,
                                              assignments, unmatched_user_ids),
         deleted_logs |-> IF existing > 0
                          THEN {r \in l : r[1] \in {"match_event", "notification_outbox"} /\ r[2] = week_start}
                          ELSE {},
         notify |-> [i \in 1..(2 * Len(assignments)) |->
                        IF i % 2 = 1 THEN assignments[(i + 1) \div 2].user_id
                        ELSE assignments[i \div 2].matched_user_id],
         \* rows written through the run's own session: log_match_event for
         \* the unmatched users (log_product_event and log_analytics_event
         \* write through the same session into insert-only tables that are
         \* not followed)
         session_logs |-> {<<"match_event", week_start, u>> : u \in unmatched_user_ids},
         created_assignments |-> 2 * Len(assignments) + Cardinality(unmatched_user_ids),
         deleted |-> existing]

\* the run of the week of t (no week_start_override)
RunPlan(pool, a, l, b, t) == RunPlanFor(pool, a, l, b, WeekStart(t), t)

\* enqueue_notification for the first n notified users: each call opens a
\* session of its own and commits it.  (enqueue_outbox_notification does the
\* same, three times a user, into the insert-only notifications_outbox.)
Enqueued(plan, n) ==
    {<<"notification_outbox", plan.week_start_date, plan.notify[i]>> : i \in 1..n}

\* repo.py 1288-1351: the INSERT ... ON CONFLICT (idempotency_key) of the i-th
\* call finds the committed row of its key; when the run's own open session
\* has deleted that row (main.py 824-834) the statement waits for that
\* session to end, and the run waits for the call to return
EnqueueWaits(plan, i) ==
    <<"notification_outbox", plan.week_start_date, plan.notify[i]>> \in plan.deleted_logs

\* POST /admin/matches/run-weekly, and the scheduled run, from the first
\* statement to the commit; the pool is read only once the run is past the
\* early return.  A run in which an enqueue_notification call waits on the
\* run's own session does not reach the commit.
RunWeeklyMatching(force, runs) ==
    LET week_start == WeekStart(now)
        existing == Cardinality(RowsOfWeek(assign, week_start))
    IN  /\ txn.pc = "idle"
        /\ IF existing > 0 /\ ~force
           THEN \* "Assignments already exist": returns before any write
                /\ ret' = [created_assignments |-> 0, deleted |-> 0]
                /\ UNCHANGED <<assign, blocks, now, pc, call, logs, txn, recon, survey>>
           ELSE \E pool \in {r \in runs : /\ r.week_start = week_start
                                            /\ r.blocked_pairs = get_block_pairs_for_matching(blocks)} :
                \E plan \in {RunPlan(pool, assign, logs, blocks, now)} :
                    /\ \A i \in 1..Len(plan.notify) : ~EnqueueWaits(plan, i)
                    /\ assign' = plan.assign
                    /\ logs' = (logs \ plan.deleted_logs) \cup plan.session_logs \cup Enqueued(plan, Len(plan.notify))
                    /\ call' = [week_start_date |-> week_start, users |-> plan.users]
                    /\ ret' = [created_assignments |-> plan.created_assignments,
                               deleted |-> plan.deleted]
                    /\ UNCHANGED <<blocks, now, pc, txn, recon, survey>>

repo_run_weekly_matching(force) == RunWeeklyMatching(force, PlainRuns)

(***************************************************************************)
(* The same run followed statement by statement.  The run works in one     *)
(* session (autocommit off) that it commits at its last line; what it      *)
(* deletes and inserts there is kept in txn until then, and an exception   *)
(* at any statement closes the session without a commit.  Every            *)
(* enqueue_notification call opens a session of its own and commits it     *)
(* before it returns.                                                      *)
(***************************************************************************)
RunBegin(force, runs) ==
    LET week_start == WeekStart(now)
        existing == Cardinality(RowsOfWeek(assign, week_start))
    IN  /\ txn.pc = "idle"
        /\ IF existing > 0 /\ ~force
           THEN /\ ret' = [created_assignments |-> 0, deleted |-> 0]
                /\ UNCHANGED <<assign, blocks, now, pc, call, logs, txn, recon, survey>>
           ELSE \E pool \in {r \in runs : /\ r.week_start = week_start
                                            /\ r.blocked_pairs = get_block_pairs_for_matching(blocks)} :
                /\ txn' = [pc |-> "open", plan |-> RunPlan(pool, assign, logs, blocks, now), n |-> 0,
                           before |-> [assign |-> assign, logs |-> logs]]
                /\ UNCHANGED <<assign, blocks, now, pc, call, ret, logs, recon, survey>>

\* main.py 875-888: enqueue_notification for the next user of a selected pair
RunEnqueue ==
    /\ txn.pc = "open"
    /\ txn.n < Len(txn.plan.notify)
    /\ ~EnqueueWaits(txn.plan, txn.n + 1)
    /\ logs' = logs \cup Enqueued(txn.plan, txn.n + 1)
    /\ txn' = [txn EXCEPT !.n = txn.n + 1]
    /\ UNCHANGED <<assign, blocks, now, pc, call, ret, recon, survey>>

\* main.py 915-918: the no_match events and the commit.  The rows the run has
\* enqueued are none of those it deleted (a call for such a row waits).
RunCommit ==
    /\ txn.pc = "open"
    /\ txn.n = Len(txn.plan.notify)
    /\ assign' = txn.plan.assign
    /\ logs' = (logs \ (txn.plan.deleted_logs \ Enqueued(txn.plan, txn.n))) \cup txn.plan.session_logs
    /\ call' = [week_start_date |-> txn.plan.week_start_date, users |-> txn.plan.users]
    /\ ret' = [created_assignments |-> txn.plan.created_assignments, deleted |-> txn.plan.deleted]
    /\ txn' = [pc |-> "idle"]
    /\ UNCHANGED <<blocks, now, pc, recon, survey>>

\* an exception raised by any statement after the inserts (an enqueue call, a
\* log call, the commit): the session closes and its work is rolled back
RunAbort ==
    /\ txn.pc = "open"
    /\ txn' = [pc |-> "idle"]
    /\ UNCHANGED <<assign, blocks, now, pc, call, ret, logs, recon, survey>>

\* A slip a maintainer could make: the week's DELETEs committed on their own,
\* so that another session sees the week cleared while the run is open.
Visible_deletes_committed(a, t) ==
    IF t.pc = "open"
    THEN [k \in DOMAIN a |-> IF k[1] = t.plan.week_start_date THEN NoRow ELSE a[k]]
    ELSE a

\* what another session reads of the assignment table while the run's
\* session is open: the committed rows
Visible(a, t) == a

\* repo_week_summary: the rows of the current week, read by another session
repo_week_summary ==
    LET week_start == WeekStart(now)
        seen == Visible(assign, txn)
    IN  /\ ret' = [rows |-> [u \in Users |-> seen[<<week_start, u>>]], during |-> txn.pc]
        /\ UNCHANGED <<assign, blocks, now, pc, call, logs, txn, recon, survey>>

_fetch_current_row(a, user_id, week_start) == a[<<week_start, user_id>>]

\* A slip a maintainer could make: the partner's row left alone.
_apply_status_own_row_only(a, week_start, user_id, new_status) ==
    IF a[<<week_start, user_id>>].status = new_status THEN a
    ELSE [a EXCEPT ![<<week_start, user_id>>].status = new_status]

_apply_status(a, week_start, user_id, new_status) ==
    LET row == a[<<week_start, user_id>>]
        other == row.matched_user_id
        a1 == [a EXCEPT ![<<week_start, user_id>>].status = new_status]
    IN  IF row.status = new_status THEN a
        ELSE IF other # 0 /\ a1[<<week_start, other>>].status # "absent"
                /\ a1[<<week_start, other>>].matched_user_id = user_id
        THEN [a1 EXCEPT ![<<week_start, other>>].status = new_status]
        ELSE a1

\* GET /matches/current
repo_get_current_match(user_id) ==
    LET week_start == WeekStart(now)
        row == _fetch_current_row(assign, user_id, week_start)
        new_status == transition_status(row.status, "view", now, row.expires_at)
    IN  /\ row.status # "absent"
        /\ IF row.matched_user_id # 0 /\ is_blocked_pair(blocks, user_id, row.matched_user_id)
           THEN UNCHANGED assign
           ELSE IF new_status # row.status
           THEN assign' = _apply_status(assign, week_start, user_id, new_status)
           ELSE UNCHANGED assign
        /\ UNCHANGED <<blocks, now, pc, call, ret, logs, txn, recon, survey>>

\* POST /matches/current/accept and /decline
repo_update_current_match_status(user_id, action) ==
    LET week_start == WeekStart(now)
        row == _fetch_current_row(assign, user_id, week_start)
        new_status == transition_status(row.status, action, now, row.expires_at)
    IN  /\ row.status # "absent"
        /\ IF new_status # row.status
           THEN assign' = _apply_status(assign, week_start, user_id, new_status)
           ELSE UNCHANGED assign
        /\ UNCHANGED <<blocks, now, pc, call, ret, logs, txn, recon, survey>>

\* POST /safety/block: the block is recorded, and when the caller's row of the
\* current week is matched with the blocked user the row is handed to
\* _apply_status with "blocked"
MaxBlocks == 1

safety_block(user_id, blocked_user_id) ==
    LET week_start == WeekStart(now)
        row == _fetch_current_row(assign, user_id, week_start)
    IN  /\ blocked_user_id # user_id
        /\ Cardinality(blocks \cup {<<user_id, blocked_user_id>>}) <= MaxBlocks
        /\ blocks' = blocks \cup {<<user_id, blocked_user_id>>}
        /\ IF row.status # "absent" /\ row.matched_user_id # 0 /\ row.matched_user_id = blocked_user_id
           THEN assign' = _apply_status(assign, week_start, user_id, "blocked")
           ELSE UNCHANGED assign
        /\ UNCHANGED <<now, pc, call, ret, logs, txn, recon, survey>>

\* the clock advances by a day
Tick ==
    /\ now < MaxNow
    /\ now' = now + 1
    /\ UNCHANGED <<assign, blocks, pc, call, ret, logs, txn, recon, survey>>

Next ==
    \/ \E force \in BOOLEAN : repo_run_weekly_matching(force)
    \/ \E user_id \in Users : repo_get_current_match(user_id)
    \/ \E user_id \in Users, action \in {"accept", "decline"} :
          repo_update_current_match_status(user_id, action)
    \/ Tick

Spec == Init /\ [][Next]_vars

(***************************************************************************)
(* The database with the block endpoint.  The runs are those over the pools  *)
(* in which everybody is eligible; the other endpoints are those of Spec.   *)
(***************************************************************************)
BlockRuns ==
    RunsOver({Users}, {b \in SUBSET CanonicalPairs(Users) : Cardinality(b) <= MaxBlocks})

NextBlock ==
    \/ \E force \in BOOLEAN : RunWeeklyMatching(force, BlockRuns)
    \/ \E user_id \in Users : repo_get_current_match(user_id)
    \/ \E user_id \in Users, action \in {"accept", "decline"} :
          repo_update_current_match_status(user_id, action)
    \/ \E user_id \in Users, blocked_user_id \in Users : safety_block(user_id, blocked_user_id)
    \/ Tick

SpecBlock == Init /\ [][NextBlock]_vars

(***************************************************************************)
(* The database with the run followed statement by statement               *)
(***************************************************************************)
\* The lifecycle handlers run between runs: while a run is open, their
\* UPDATE of a row the run has deleted waits for the run's session.
NextRun ==
    \/ \E force \in BOOLEAN : RunBegin(force, BlockRuns)
    \/ RunEnqueue
    \/ RunCommit
    \/ RunAbort
    \/ repo_week_summary
    \/ \E user_id \in Users : txn.pc = "idle" /\ repo_get_current_match(user_id)
    \/ \E user_id \in Users, action \in {"accept", "decline"} :
          txn.pc = "idle" /\ repo_update_current_match_status(user_id, action)
    \/ Tick

SpecRun == Init /\ [][NextRun]_vars

(***************************************************************************)
(* The database with the two other writers of the assignment table:        *)
(* account deletion and the reset of the seeding tool, within one day.     *)
(***************************************************************************)
\* DELETE /users/me/account: the rows matched with the user become no_match
\* rows (in every week), the user's own rows are deleted
anonymize_and_disable_user(user_id) ==
    /\ assign' = [k \in DOMAIN assign |->
                     IF k[2] = user_id THEN NoRow
                     ELSE IF assign[k].status # "absent" /\ assign[k].matched_user_id = user_id
                     THEN [assign[k] EXCEPT !.matched_user_id = 0, !.status = "no_match",
                                            !.reason = "counterpart_account_deleted"]
                     ELSE assign[k]]
    /\ UNCHANGED <<blocks, now, pc, call, ret, logs, txn, recon, survey>>

\* seed_dummy_data with reset: the tenant's assignments and match events are
\* deleted
seed_dummy_data_reset ==
    /\ assign' = [k \in DOMAIN assign |-> NoRow]
    /\ logs' = {r \in logs : r[1] # "match_event"}
    /\ UNCHANGED <<blocks, now, pc, call, ret, txn, recon, survey>>

\* the runs find everybody eligible, or everybody but one user
AccountRuns == {r \in PlainRuns : \E u \in Users : Users \ {u} \subseteq r.eligible}

NextAccount ==
    \/ \E force \in BOOLEAN : RunWeeklyMatching(force, AccountRuns)
    \/ \E user_id \in Users : repo_get_current_match(user_id)
    \/ \E user_id \in Users, action \in {"accept", "decline"} :
          repo_update_current_match_status(user_id, action)
    \/ \E user_id \in Users : anonymize_and_disable_user(user_id)
    \/ seed_dummy_data_reset

SpecAccount == Init /\ [][NextAccount]_vars

(***************************************************************************)
(* Properties of the state machine (SpecSM)                                *)
(***************************************************************************)
\* C9: transition_status never moves a status backwards: from no_match,
\* accepted, declined, expired and blocked every action at every time returns
\* the status it was given, and from revealed no action returns proposed.
C9_NeverBackwards ==
    pc = "returned" =>
        /\ call.current \in {"no_match", "accepted", "declined", "expired", "blocked"} => ret = call.current
        /\ call.current = "revealed" => ret # "proposed"

\* an accepted row asked to expire after its expiry time stays accepted
C9_Witness ==
    /\ pc = "returned"
    /\ call.current = "accepted"
    /\ call.action = "expire"
    /\ call.now >= call.expires_at
    /\ ret = "accepted"

\* C10: for a status in {proposed, revealed} and now >= expires_at,
\* transition_status returns expired whatever the action, so nothing moves to
\* revealed, accepted or declined at or after the expiry time.
C10_ExpiredAtOrAfterExpiry ==
    (pc = "returned" /\ call.current \in {"proposed", "revealed"} /\ call.now >= call.expires_at)
        => ret = "expired"

\* a view of a proposed row at the very instant of expiry
C10_Witness ==
    /\ pc = "returned"
    /\ call.current = "proposed"
    /\ call.action = "view"
    /\ call.now = call.expires_at
    /\ ret = "expired"

\* C11: transition_status is idempotent: for every status, action, now and
\* expires_at, the action applied to the result of its first application (same
\* now and expires_at) returns that same result.
C11_Idempotent ==
    pc = "reapplied" => ret = call.current

\* accept on a revealed row gives accepted, and accept again stays accepted
C11_Witness ==
    /\ pc = "reapplied"
    /\ call.first_current = "revealed"
    /\ call.action = "accept"
    /\ call.now < call.expires_at
    /\ call.current = "accepted"
    /\ ret = "accepted"

(***************************************************************************)
(* Properties of the scorer (SpecScore)                                    *)
(***************************************************************************)
KidsConflict(ku, kv) ==
    \/ ku \in {"yes", "probably"} /\ kv \in {"no", "probably_not"}
    \/ kv \in {"yes", "probably"} /\ ku \in {"no", "probably_not"}

\* C7: a firm yes (yes, probably) against a firm no (no, probably_not) on kids
\* gives score_total = 0 with gates exactly [kids_hard_conflict], whatever the
\* other dimensions and in either argument order; with unsure on either side the
\* kids gate is not triggered.
C7_KidsHardConflict ==
    pc = "returned" =>
        LET ku == _life_kids_intent(call.u_traits)
            kv == _life_kids_intent(call.v_traits)
        IN  /\ KidsConflict(ku, kv) =>
                /\ ret.uv.score_total = 0 /\ ret.uv.gates = <<"kids_hard_conflict">>
                /\ ret.vu.score_total = 0 /\ ret.vu.gates = <<"kids_hard_conflict">>
            /\ (ku = "unsure" \/ kv = "unsure") =>
                /\ \A i \in 1..Len(ret.uv.gates) : ret.uv.gates[i] # "kids_hard_conflict"
                /\ \A i \in 1..Len(ret.vu.gates) : ret.vu.gates[i] # "kids_hard_conflict"

\* probably against probably_not, with both escalation values above the safety gate
C7_Witness ==
    /\ pc = "returned"
    /\ _life_kids_intent(call.u_traits) = "probably_not"
    /\ _life_kids_intent(call.v_traits) = "probably"
    /\ _dim(call.u_traits, "escalation") > ESCALATION_GATE
    /\ _dim(call.v_traits, "escalation") > ESCALATION_GATE
    /\ ret.uv.score_total = 0
    /\ ret.uv.gates = <<"kids_hard_conflict">>

\* C8: compute_compatibility(a, b).score_total = compute_compatibility(b, a).score_total
\* for all pairs of profiles: gated pairs, legacy pairs and pairs where only
\* one profile carries the dimensions.
C8_ScoreSymmetric ==
    pc = "returned" => ret.uv.score_total = ret.vu.score_total

\* a legacy profile scored against a profile with dimensions, one penalty applied
C8_Witness ==
    /\ pc = "returned"
    /\ ~HasKey(call.u_traits, "dimensions")
    /\ HasKey(call.v_traits, "dimensions")
    /\ HasKey(call.u_traits, "big5")
    /\ ret.uv.score_total > 0
    /\ ret.uv.score_total < Unit
    /\ ret.vu.path = "weighted"

(***************************************************************************)
(* Properties of the candidate builder and the matching engine (SpecMatch) *)
(***************************************************************************)
CandidateSet == SeqToSet(ret.pairs)
AssignmentSet == SeqToSet(ret.assignments)
UserById(uid) == CHOOSE u \in SeqToSet(call.users) : u.user_id = uid
Unordered(c) == {c.user_id, c.matched_user_id}

\* C4: a pair whose canonical form is in the recency set or in the blocked set
\* is neither among the pairs build_candidate_pairs returns nor among the
\* assignments stable_match returns, in either mode.
C4_ExcludedPairsNeverAppear ==
    \A p \in call.recent_pairs \cup call.blocked_pairs :
        /\ pc \in {"stable_match", "returned"} => \A c \in CandidateSet : Unordered(c) # {p[1], p[2]}
        /\ pc = "returned" => \A c \in AssignmentSet : Unordered(c) # {p[1], p[2]}

\* a recent pair and a blocked pair that would both be candidates otherwise,
\* and a run that still assigns somebody
C4_Witness ==
    /\ pc = "returned"
    /\ call.recent_pairs # {}
    /\ call.blocked_pairs # {}
    /\ \A p \in call.recent_pairs \cup call.blocked_pairs :
          \E c \in SeqToSet(build_candidate_pairs(call.users, {}, {})) :
              Unordered(c) = {p[1], p[2]} /\ c.score_total >= call.min_score
    /\ ret.assignments # <<>>

\* the identity is set and not blank, the seeking list is a non-empty list, and
\* the identity is one of the genders the other seeks
Seeks(u, v) ==
    /\ v.gender_identity # None
    /\ StripLower(v.gender_identity) # ""
    /\ u.seeking_genders.is_list
    /\ \E i \in 1..Len(u.seeking_genders.items) :
          /\ u.seeking_genders.items[i] # None
          /\ StripLower(u.seeking_genders.items[i]) = StripLower(v.gender_identity)

\* C6: every pair build_candidate_pairs returns, and every final assignment,
\* satisfies mutual gender preference; a pair with an unset or blank identity
\* or an empty or unset seeking set is never produced.
C6_MutualGenderPreference ==
    \A c \in CandidateSet \cup AssignmentSet :
        /\ Seeks(UserById(c.user_id), UserById(c.matched_user_id))
        /\ Seeks(UserById(c.matched_user_id), UserById(c.user_id))

\* a pool with a one-sided preference, in which somebody is still assigned
C6_Witness ==
    /\ pc = "returned"
    /\ \E u, v \in SeqToSet(call.users) : u.user_id < v.user_id /\ Seeks(v, u) /\ ~Seeks(u, v)
    /\ ret.pairs # <<>>
    /\ ret.assignments # <<>>

IsManSeekingWomen(u) ==
    /\ _normalize_gender(u.gender_identity) = "man" /\ _parse_seeking(u.seeking_genders) = {"woman"}
IsWomanSeekingMen(u) ==
    /\ _normalize_gender(u.gender_identity) = "woman" /\ _parse_seeking(u.seeking_genders) = {"man"}

HasCandidate(a, b) == \E c \in CandidateSet : Unordered(c) = {a, b}
\* the score of the candidate pair with its tie-break offset
TieBrokenScore(a, b) ==
    LET c == CHOOSE c \in CandidateSet : Unordered(c) = {a, b}
    IN  c.score_total * EPS_RANGE + _stable_hash_eps(a, b, call.week_start_date)
\* the assigned partner, or 0
PartnerOf(a) ==
    IF \E c \in AssignmentSet : a \in Unordered(c)
    THEN CHOOSE b \in UserIds(call.users) : \E c \in AssignmentSet : Unordered(c) = {a, b} /\ a # b
    ELSE 0
WouldLeaveFor(a, b) == PartnerOf(a) = 0 \/ TieBrokenScore(a, b) > TieBrokenScore(a, PartnerOf(a))
BlockingPair(m, w) ==
    /\ HasCandidate(m, w)
    /\ (CHOOSE c \in CandidateSet : Unordered(c) = {m, w}).score_total >= call.min_score
    /\ PartnerOf(m) # w
    /\ WouldLeaveFor(m, w)
    /\ WouldLeaveFor(w, m)

\* C5: on a bipartite pool in mode stable_bipartite_if_possible the pairs
\* stable_match returns contain no blocking pair (a man and a woman whose
\* candidate pair scores at least min_score, not matched to each other, each
\* unmatched or strictly preferring the other by tie-broken score), for every
\* top_k >= 1.
C5_NoBlockingPair ==
    (/\ pc = "returned"
     /\ call.mode = "stable_bipartite_if_possible"
     /\ \A u \in SeqToSet(call.users) : IsManSeekingWomen(u) \/ IsWomanSeekingMen(u))
        => \A m, w \in UserIds(call.users) :
              (IsManSeekingWomen(UserById(m)) /\ IsWomanSeekingMen(UserById(w))) => ~BlockingPair(m, w)

(***************************************************************************)
(* Properties of the weekly run and the lifecycle handlers (Spec)          *)
(***************************************************************************)
MatchedKeys == {k \in DOMAIN assign : assign[k].status # "absent" /\ assign[k].matched_user_id # 0}

\* C1: after any sequence of weekly runs, forced or not, every row (week w,
\* user u) with matched_user_id v has its counterpart row (week w, user v) with
\* matched_user_id u (one at most, the key being week and user).
C1_ReciprocalRows ==
    \A k \in MatchedKeys :
        LET other == assign[<<k[1], assign[k].matched_user_id>>]
        IN  other.status # "absent" /\ other.matched_user_id = k[2]

\* a forced re-run has replaced the rows of the week by two fresh pairs
C1_Witness ==
    /\ ret.deleted > 0
    /\ ret.created_assignments >= 4
    /\ Cardinality(MatchedKeys) = 4
    /\ \A k \in MatchedKeys : assign[k].status = "proposed"

\* C2: after any sequence of view, accept, decline and expiry actions by
\* either user of a matched pair, the two rows of the pair hold the same status.
C2_PairInLockstep ==
    \A k \in MatchedKeys :
        assign[<<k[1], assign[k].matched_user_id>>].status = assign[k].status

\* one pair has been accepted, another has run into its expiry time
C2_Witness ==
    /\ \E k \in MatchedKeys : assign[k].status = "accepted"
    /\ \E k \in MatchedKeys : assign[k].status = "expired" /\ now >= assign[k].expires_at

\* C3: after a weekly run commits, every eligible user has exactly one row for
\* the week: a row of a selected pair, whose partner's row points back (no
\* user is in two selected pairs, on either path), or a no_match row with
\* reason below_min_score_or_no_candidate.
C3_OneRowPerEligibleUser ==
    \A u \in call.users :
        LET row == assign[<<call.week_start_date, u>>]
        IN  /\ row.status # "absent"
            /\ IF row.matched_user_id = 0
               THEN row.status = "no_match" /\ row.reason = "below_min_score_or_no_candidate"
               ELSE /\ row.status # "no_match"
                    /\ row.matched_user_id # u
                    /\ row.matched_user_id \in call.users
                    /\ assign[<<call.week_start_date, row.matched_user_id>>].matched_user_id = u

\* a run over three users or more that selected a pair and left somebody out
C3_Witness ==
    /\ Cardinality(call.users) >= 3
    /\ ret.created_assignments = Cardinality(call.users)
    /\ \E u \in call.users : assign[<<call.week_start_date, u>>].status = "no_match"
    /\ \E u \in call.users : assign[<<call.week_start_date, u>>].status = "proposed"

\* C12: when user u blocks the user v of their current pair, u's row becomes
\* blocked and v's row keeps the status it had before the block.
C12_OnlyBlockersRowBlocked ==
    [][\A u \in Users, v \in Users :
          LET week_start == WeekStart(now)
          IN  (safety_block(u, v) /\ assign[<<week_start, u>>].matched_user_id = v)
                  => /\ assign'[<<week_start, u>>].status = "blocked"
                     /\ assign'[<<week_start, v>>].status = assign[<<week_start, v>>].status]_vars

WeekRows(a, week_start_date) == [u \in Users |-> a[<<week_start_date, u>>]]

\* C13: when a weekly run fails before its commit, nothing it wrote persists:
\* the assignment table and the event and notification rows are those of the
\* moment the run began.
C13_FailedRunLeavesNothing ==
    [][RunAbort => (assign' = txn.before.assign /\ logs' = txn.before.logs)]_vars

\* C14: a session that reads the week's assignments while a forced re-run is
\* open sees the complete set of rows the week had before the run or the
\* complete regenerated set, never a cleared or half-cleared week.
C14_ReaderSeesOldOrNew ==
    [][(repo_week_summary /\ txn.pc = "open")
          => \/ ret'.rows = WeekRows(txn.before.assign, txn.plan.week_start_date)
             \/ ret'.rows = WeekRows(txn.plan.assign, txn.plan.week_start_date)]_vars

\* a read made while a forced re-run that has deleted four rows, one of them
\* accepted, is open
C14_Witness ==
    /\ "rows" \in DOMAIN ret
    /\ ret.during = "open"
    /\ txn.pc = "open"
    /\ txn.plan.deleted >= 4
    /\ \E u \in Users : ret.rows[u].status = "accepted"
    /\ ret.rows = WeekRows(assign, txn.plan.week_start_date)
    /\ ret.rows # WeekRows(txn.plan.assign, txn.plan.week_start_date)

\* a run without force over a week that has rows leaves the table as it is
\* and reports no created assignment
NoForceRunChangesNothing ==
    ((\E u \in Users : assign[<<WeekStart(now), u>>].status # "absent")
        /\ RunWeeklyMatching(FALSE, AccountRuns))
        => (assign' = assign /\ ret'.created_assignments = 0)

RowDeleted(k) == assign[k].status # "absent" /\ assign'[k].status = "absent"

\* C15: a run without force over a week that already has rows changes no
\* assignment row and reports created_assignments = 0, and a row is deleted
\* only by a run with force for the row's week.
C15_OnlyForcedRunDeletes ==
    [][/\ NoForceRunChangesNothing
       /\ \A k \in DOMAIN assign :
             RowDeleted(k) => (k[1] = WeekStart(now) /\ RunWeeklyMatching(TRUE, AccountRuns))]_vars

\* C15 as the code has it: a run without force over a week that already has
\* rows changes no assignment row and reports created_assignments = 0; a row
\* is deleted only by a run with force for the row's week, by the deletion of
\* the account of the row's user, or by a reset of the seeding tool.  (A run
\* leaves the users of its pool in call.)
C15_DeletedByForcedRunAccountOrReset ==
    [][/\ NoForceRunChangesNothing
       /\ \A k \in DOMAIN assign :
             RowDeleted(k) => \/ anonymize_and_disable_user(k[2])
                              \/ seed_dummy_data_reset
                              \/ /\ k[1] = WeekStart(now)
                                 /\ RunWeeklyMatching(TRUE, {r \in AccountRuns : r.eligible = call'.users})]_vars

\* a run without force has returned over a week in which a row is accepted
\* and the row of a user of the last committed run is gone
C15_Witness ==
    /\ ret = [created_assignments |-> 0, deleted |-> 0]
    /\ \E u \in call.users : assign[<<call.week_start_date, u>>].status = "accepted"
    /\ \E u \in call.users : assign[<<call.week_start_date, u>>].status = "absent"

(***************************************************************************)
(* Survey reconciliation (services/survey_fingerprint.py,                  *)
(* services/survey_reconciliation.py).  A survey definition is a version   *)
(* and a sequence of screens, a screen a sequence of items, an item a      *)
(* question and its visibility rules.  Of a question the model keeps the   *)
(* code and the fields that vary between revisions here: the text, and the *)
(* two validation flags.  A digest stands for the canonical JSON it is     *)
(* taken from (no collisions).                                             *)
(***************************************************************************)
SURVEY_SLUG == "match-core-v3"

\* The definitions of a version: question Q1, required and always shown, alone
\* or with a question Q2 of either text, optional, required or required and
\* skippable, always shown or shown when Q1 is answered "yes", the two laid
\* out on one screen or two, in either order.
Definitions(version) ==
    LET show_if == [type |-> "show_if", trigger_question_code |-> "Q1", operator |-> "eq",
                    trigger_value |-> "yes"]
        i1 == [question |-> [code |-> "Q1", text |-> "p", is_required |-> TRUE, allow_skip |-> FALSE],
               rules |-> <<>>]
        items2 == {[question |-> [code |-> "Q2", text |-> t, is_required |-> f[1], allow_skip |-> f[2]],
                    rules |-> r] :
                      t \in {"p", "p2"}, f \in {<<FALSE, FALSE>>, <<TRUE, FALSE>>, <<TRUE, TRUE>>},
                      r \in {<<>>, <<show_if>>}}
        layouts(i2) == {<< <<i1, i2>> >>, << <<i2, i1>> >>, << <<i1>>, <<i2>> >>, << <<i2>>, <<i1>> >>}
    IN  {[version |-> version, screens |-> sc] :
            sc \in {<< <<i1>> >>} \cup UNION {layouts(i2) : i2 \in items2}}

RECURSIVE ItemsOf(_)
ItemsOf(screens) == IF screens = <<>> THEN <<>> ELSE Head(screens) \o ItemsOf(Tail(screens))

\* a digest; <<>> stands for a hash that is not recorded (NULL)
sha256_hex(value) == <<value>>

\* survey_fingerprint.py 41-57: what the digest of a question is taken from
\* (the fields kept fixed here, and rules, which the code reads from the
\* question and is empty there, are left out)
question_semantics_hash(question) ==
    sha256_hex([prompt |-> question.text,
                validation |-> [is_required |-> question.is_required, allow_skip |-> question.allow_skip]])

\* survey_fingerprint.py 60-84 (a later item of the same code replaces an earlier one)
build_question_index(survey_def) ==
    LET items == ItemsOf(survey_def.screens)
        last(c) == CHOOSE i \in DOMAIN items :
                      /\ items[i].question.code = c
                      /\ \A j \in DOMAIN items : items[j].question.code = c => j <= i
    IN  [c \in {items[i].question.code : i \in DOMAIN items} |->
            [is_required |-> items[last(c)].question.is_required /\ ~items[last(c)].question.allow_skip,
             question_hash |-> question_semantics_hash(items[last(c)].question)]]

\* survey_runtime.py 10-48
get_active_survey_runtime(definition) ==
    [slug |-> SURVEY_SLUG, version |-> definition.version, hash |-> sha256_hex(definition),
     question_index |-> build_question_index(definition),
     required_question_ids |-> {c \in DOMAIN build_question_index(definition) :
                                   build_question_index(definition)[c].is_required}]

\* survey_reconciliation.py 41-62: the rows of survey_definition as the code
\* reads them
_definitions_for_slug(stored) ==
    [i \in DOMAIN stored |->
        [version |-> stored[i].version, definition_hash |-> sha256_hex(stored[i]),
         question_index |-> build_question_index(stored[i])]]

\* survey_reconciliation.py 65-76: the first definition of the list with the
\* largest overlap
_choose_definition_by_overlap(answer_keys, defs) ==
    LET overlap(i) == Cardinality(answer_keys \cap DOMAIN defs[i].question_index)
        cands == {i \in DOMAIN defs : DOMAIN defs[i].question_index # {}}
    IN  IF cands = {} THEN <<>>
        ELSE <<defs[CHOOSE i \in cands : \A j \in cands : /\ overlap(j) <= overlap(i)
                                                             /\ overlap(j) = overlap(i) => i <= j]>>

\* survey_reconciliation.py 109-145 (operator eq)
_is_question_visible(item, answers) ==
    \A k \in DOMAIN item.rules :
        LET rule == item.rules[k]
        IN  /\ rule.trigger_question_code \in DOMAIN answers
            /\ answers[rule.trigger_question_code] = rule.trigger_value

\* survey_reconciliation.py 148-163
_get_visible_required_questions(definition, answers) ==
    LET items == ItemsOf(definition.screens)
    IN  {items[i].question.code : i \in {j \in DOMAIN items : /\ items[j].question.is_required
                                                               /\ _is_question_visible(items[j], answers)}}

\* survey_reconciliation.py 166-311, up to the INSERT: latest is the user's
\* last session with its answers, in a sequence that is empty without one (so
\* is a definition that may be None), definitions the rows of survey_definition
\* in the order of the query
Reconciled(current, latest, definitions) ==
    LET runtime == get_active_survey_runtime(current)
        current_q == runtime.question_index
        answers_old == IF latest = <<>> THEN <<>> ELSE latest[1].answers
        by_hash == {i \in DOMAIN definitions :
                       latest # <<>> /\ definitions[i].definition_hash = latest[1].survey_hash}
        by_version == {i \in DOMAIN definitions :
                          latest # <<>> /\ definitions[i].version = latest[1].survey_version}
        old_def == IF by_hash # {} THEN <<definitions[CHOOSE i \in by_hash : \A j \in by_hash : j <= i]>>
                   ELSE IF by_version # {} THEN <<definitions[CHOOSE i \in by_version : \A j \in by_version : i <= j]>>
                   ELSE IF DOMAIN answers_old # {} THEN _choose_definition_by_overlap(DOMAIN answers_old, definitions)
                   ELSE <<>>
        old_hash == IF old_def # <<>> THEN old_def[1].definition_hash
                    ELSE IF latest = <<>> THEN <<>> ELSE latest[1].survey_hash
        old_q == IF old_def = <<>> THEN <<>> ELSE old_def[1].question_index
        carried == {qid \in DOMAIN current_q \cap DOMAIN answers_old :
                       IF qid \in DOMAIN old_q
                       THEN old_q[qid].question_hash = current_q[qid].question_hash
                       ELSE old_hash = runtime.hash}
        missing == IF latest = <<>> THEN runtime.required_question_ids
                   ELSE {qid \in DOMAIN current_q \ carried : current_q[qid].is_required}
    IN  [survey_slug |-> runtime.slug,
         current_survey_hash |-> runtime.hash,
         source_survey_hash |-> old_hash,
         answers_current |-> [qid \in carried |-> answers_old[qid]],
         missing_question_ids |-> missing,
         needs_retake |-> missing # {}]

\* A slip a maintainer could make: the INSERT without its ON CONFLICT clause
\* on a table without the unique index.
Upsert_plain_insert(table, row) == Append(table, row)

\* survey_reconciliation.py 267-297: INSERT ... ON CONFLICT (user_id,
\* survey_slug, current_survey_hash) DO UPDATE
Upsert(table, row) ==
    LET conflict(r) == /\ r.user_id = row.user_id
                       /\ r.survey_slug = row.survey_slug
                       /\ r.current_survey_hash = row.current_survey_hash
    IN  IF \E i \in DOMAIN table : conflict(table[i])
        THEN [i \in DOMAIN table |-> IF conflict(table[i]) THEN row ELSE table[i]]
        ELSE Append(table, row)

(***************************************************************************)
(* Two requests reconcile the same user at the same time, each in its own  *)
(* database session (the callers commit: main.py 303-380).  call holds     *)
(* what the requests read and nothing changes: the active definition, the  *)
(* rows of survey_definition and the user's last session.  The INSERT of   *)
(* a session waits while another session holds an uncommitted row of the   *)
(* same key.                                                               *)
(***************************************************************************)
Requests == {"r1", "r2"}

InitReconcile ==
    /\ DbEmpty
    /\ pc = [r \in Requests |-> "start"]
    /\ ret = [r \in Requests |-> None]
    /\ \E old \in {d \in Definitions(1) : \A i \in DOMAIN ItemsOf(d.screens) :
                                             ItemsOf(d.screens)[i].question.text = "p"} :
       \E current \in {old} \cup Definitions(2) :
       \E answers \in UNION {[D -> {"yes", "no", "x"}] : D \in SUBSET DOMAIN build_question_index(old)} :
       \E latest \in {<<>>} \cup {<<s>> : s \in [survey_hash : {sha256_hex(old), <<>>},
                                                   survey_version : {old.version}, answers : {answers}]} :
           /\ "Q1" \in DOMAIN answers => answers["Q1"] # "x"
           /\ "Q2" \in DOMAIN answers => answers["Q2"] = "x"
           /\ call = [current |-> current, latest |-> latest, answered |-> old,
                      stored |-> IF current = old THEN <<old>> ELSE <<current, old>>]

reconcile_user_survey_to_current(r) ==
    /\ pc[r] = "start"
    /\ \A o \in Requests : pc[o] # "written"
    /\ ret' = [ret EXCEPT ![r] = [user_id |-> 1] @@ Reconciled(call.current, call.latest, _definitions_for_slug(call.stored))]
    /\ pc' = [pc EXCEPT ![r] = "written"]
    /\ UNCHANGED <<call, dbVars>>

CommitReconcile(r) ==
    /\ pc[r] = "written"
    /\ recon' = Upsert(recon, ret[r])
    /\ pc' = [pc EXCEPT ![r] = "done"]
    /\ UNCHANGED <<assign, blocks, now, call, ret, logs, txn, survey>>

NextReconcile ==
    \/ \E r \in Requests : reconcile_user_survey_to_current(r)
    \/ \E r \in Requests : CommitReconcile(r)
SpecReconcile == InitReconcile /\ [][NextReconcile]_vars

\* C16: two reconciliations of the same user, with no change of the answers
\* or of the active definition between them, return the same merged answers,
\* missing list and needs_retake flag, and leave exactly one row of
\* survey_reconciliation_state for (user, slug, current hash), which holds
\* what they returned; so do two concurrent retries.
C16_ReconcileIdempotent ==
    (\A r \in Requests : pc[r] = "done") =>
        /\ \A r \in Requests : ret[r] = ret["r1"]
        /\ Len(recon) = 1
        /\ recon[1] = ret["r1"]
        /\ recon[1].current_survey_hash = sha256_hex(call.current)

\* both requests are done for a user whose answers were partly carried
\* forward and partly not
C16_Witness ==
    /\ \A r \in Requests : pc[r] = "done"
    /\ DOMAIN ret["r2"].answers_current # {}
    /\ ret["r2"].needs_retake

\* the active definition holds the items of the definition the user
\* answered, moved between screens or reordered
CosmeticRevision ==
    LET old == ItemsOf(call.answered.screens)
        new == ItemsOf(call.current.screens)
    IN  /\ call.current # call.answered
        /\ {old[i] : i \in DOMAIN old} = {new[i] : i \in DOMAIN new}

\* the user's last response answers every required question of the
\* definition it was given to that its rules show
CompleteResponse ==
    /\ call.latest # <<>>
    /\ \A c \in _get_visible_required_questions(call.answered, call.latest[1].answers) :
          c \in DOMAIN call.latest[1].answers

\* C17: when the active revision differs from the one the user answered only
\* by the screens and the order of its questions, reconciliation carries
\* every prior answer forward and reports needs_retake = false for a user
\* whose prior response was complete.
C17_CosmeticRevisionKeepsAnswers ==
    \A r \in Requests :
        (pc[r] # "start" /\ CosmeticRevision /\ CompleteResponse) =>
            /\ ret[r].answers_current = call.latest[1].answers
            /\ ~ret[r].needs_retake

(***************************************************************************)
(* Trait computation (traits.py).  An answer is written as a string: a     *)
(* number by its digits, null as None; a question without a row in the     *)
(* answers is outside their domain.  Trait values are in millionths.  An   *)
(* optional number is a sequence, empty for None.                          *)
(***************************************************************************)
TRAITS_VERSION == 3

AnswerOf(answers, code) == IF code \in DOMAIN answers THEN answers[code] ELSE None

\* traits.py 10-19
_coerce_likert(value) ==
    LET digits == <<"1", "2", "3", "4", "5">>
    IN  IF \E n \in DOMAIN digits : digits[n] = value
        THEN <<CHOOSE n \in DOMAIN digits : digits[n] = value>>
        ELSE <<>>

\* traits.py 22-27
_normalize_likert(value, reverse) ==
    LET v == _coerce_likert(value)
    IN  IF v = <<>> THEN <<>>
        ELSE LET out == ((v[1] - 1) * Unit) \div 4
             IN  <<IF reverse THEN Unit - out ELSE out>>

\* traits.py 30-35
_forced_choice_value(value) ==
    IF value = "A" THEN <<0>> ELSE IF value = "B" THEN <<Unit>> ELSE <<>>

\* traits.py 38-41, over optional numbers of which the None ones are left out
RECURSIVE SumOfPresent(_)
SumOfPresent(vals) ==
    IF vals = <<>> THEN <<0, 0>>
    ELSE LET rest == SumOfPresent(Tail(vals))
         IN  IF Head(vals) = <<>> THEN rest ELSE <<rest[1] + Head(vals)[1], rest[2] + 1>>
_mean(vals, default) ==
    LET s == SumOfPresent(vals)
    IN  IF s[2] = 0 THEN default ELSE RoundDiv(s[1], s[2])

\* `x or 0.5` and `x if x is not None else 0.5`
OrHalf(v) == IF v = <<>> \/ v = <<0>> THEN Unit \div 2 ELSE v[1]
ElseHalf(v) == IF v = <<>> THEN Unit \div 2 ELSE v[1]

\* traits.py 59-75
_build_question_meta(survey_def) ==
    LET items == ItemsOf(survey_def.screens)
    IN  [c \in {items[i].question.code : i \in DOMAIN items} |->
            items[CHOOSE i \in DOMAIN items :
                     /\ items[i].question.code = c
                     /\ \A j \in DOMAIN items : items[j].question.code = c => j <= i].question]

\* traits.py 78-98
_required_missing_codes(survey_def, answers) ==
    LET items == ItemsOf(survey_def.screens)
    IN  {items[i].question.code : i \in {j \in DOMAIN items :
            LET q == items[j].question
            IN  /\ q.is_required
                /\ ~q.allow_skip
                /\ ~(q.code = "KIDS_02" /\ AnswerOf(answers, "KIDS_01") \notin {"yes", "probably"})
                /\ AnswerOf(answers, q.code) \in {None, ""}}}

\* services/rules.py 4-25 (operators eq and in)
item_is_visible(rules, answers) ==
    \A k \in DOMAIN rules :
        rules[k].type = "show_if" =>
            LET actual == AnswerOf(answers, rules[k].trigger_question_code)
            IN  IF rules[k].operator = "eq" THEN actual = rules[k].trigger_value
                ELSE IF rules[k].operator = "in" THEN actual \in rules[k].trigger_value
                ELSE FALSE

\* A slip a maintainer could make: every answer of a known question kept for
\* scoring, whatever its usage.
ScoringAnswers_any_usage(qmeta, answers) ==
    [c \in DOMAIN answers \cap DOMAIN qmeta |-> answers[c]]

\* traits.py 158-175: the answers kept for scoring
ScoringAnswers(qmeta, answers) ==
    [c \in {d \in DOMAIN answers \cap DOMAIN qmeta :
               /\ qmeta[d].usage # "COPY_ONLY"
               /\ qmeta[d].usage = "SCORING" /\ qmeta[d].region_tag = "GLOBAL"} |-> answers[c]]

\* traits.py 158-175: the answers kept for copy; vibe holds the codes that
\* start with VIBE_, school those of region CBS_NYC or that start with CBS_
CopyOnly(qmeta, answers) ==
    LET copy(keep(_)) ==
            [c \in {d \in DOMAIN answers : /\ d \in DOMAIN qmeta
                                           /\ qmeta[d].usage = "COPY_ONLY"
                                           /\ keep(d)} |->
                IF answers[c] = None THEN "" ELSE answers[c]]
        vibe(d) == d \in {"VIBE_01"}
        school(d) == ~vibe(d) /\ (qmeta[d].region_tag = "CBS_NYC" \/ d \in {"CBS_01"})
    IN  [vibe |-> copy(vibe), school |-> copy(school)]

\* traits.py 152-292
compute_traits_match_core_v3(survey_def, answers) ==
    LET qmeta == _build_question_meta(survey_def)
        missing == _required_missing_codes(survey_def, answers)
        scoring_answers == ScoringAnswers(qmeta, answers)
        likert(code) == _normalize_likert(AnswerOf(scoring_answers, code),
                                          code \in DOMAIN qmeta /\ qmeta[code].reverse_coded)
        fc(code) == ElseHalf(_forced_choice_value(AnswerOf(scoring_answers, code)))
        half == Unit \div 2
        mean_codes(codes) == _mean([i \in DOMAIN codes |-> likert(codes[i])], half)
        big_five == [openness |-> mean_codes(<<"OPN_01", "OPN_02", "OPN_03">>),
                     conscientiousness |-> mean_codes(<<"CON_01", "CON_02", "CON_03">>),
                     extraversion |-> mean_codes(<<"EXT_01", "EXT_02", "EXT_03">>),
                     agreeableness |-> mean_codes(<<"AGR_01", "AGR_02", "AGR_03">>)]
        emotional_stability == mean_codes(<<"ER_01", "ER_02", "ER_03">>)
        conflict == [approach |-> OrHalf(likert("REP_01")),
                     withdrawal |-> mean_codes(<<"REP_02", "REP_05">>),
                     escalation |-> mean_codes(<<"REP_04", "REP_10">>),
                     structure |-> OrHalf(likert("REP_11")),
                     repair_belief |-> mean_codes(<<"REP_07", "REP_12">>),
                     accountability_need |-> OrHalf(likert("REP_08"))]
        attachment == [reassurance_need |-> OrHalf(likert("ATT_02")),
                       text_sensitivity |-> OrHalf(likert("ATT_03")),
                       independence_need |-> OrHalf(likert("ATT_04")),
                       trust_baseline |-> OrHalf(likert("ATT_05")),
                       alone_time_need |-> OrHalf(likert("ATT_07")),
                       drama_avoidance |-> OrHalf(likert("ATT_08")),
                       testing_behavior |-> OrHalf(likert("ATT_09"))]
        kids_intent == AnswerOf(scoring_answers, "KIDS_01")
        kids_timeline == IF kids_intent \notin {"yes", "probably"} THEN None
                         ELSE AnswerOf(scoring_answers, "KIDS_02")
        life == [kids_intent |-> IF kids_intent = None THEN "unsure" ELSE kids_intent,
                 kids_timeline |-> kids_timeline,
                 relocation_openness |-> OrHalf(likert("LOC_01")),
                 career_intensity |-> OrHalf(likert("CAR_01")),
                 partner_achievement_preference |-> OrHalf(likert("CAR_02")),
                 marriage_intent |-> OrHalf(likert("MAR_01")),
                 define_intentions_early |-> mean_codes(<<"MAR_02", "MAR_03">>),
                 worldview_alignment_importance |-> ElseHalf(likert("VAL_02")),
                 worldview_alignment |-> mean_codes(<<"VAL_01", "VAL_03">>)]
        tradeoffs == [stability_vs_novelty |-> fc("FC_01"), intimate_vs_group |-> fc("FC_02"),
                      steady_vs_highs |-> fc("FC_03"), direct_vs_gradual |-> fc("FC_04"),
                      define_early_vs_unfold |-> fc("FC_05"), frequent_comm_vs_space |-> fc("FC_06"),
                      career_vs_relationship |-> fc("FC_07"), save_vs_spend |-> fc("FC_08")]
        dims == [worldview_alignment |-> life.worldview_alignment,
                 stability |-> emotional_stability,
                 reassurance_need |-> attachment.reassurance_need,
                 independence_need |-> attachment.independence_need,
                 text_sensitivity |-> attachment.text_sensitivity,
                 drama_avoidance |-> attachment.drama_avoidance,
                 testing_behavior |-> attachment.testing_behavior,
                 approach |-> conflict.approach,
                 withdrawal |-> conflict.withdrawal,
                 escalation |-> conflict.escalation,
                 repair_belief |-> conflict.repair_belief,
                 structure |-> conflict.structure,
                 extraversion |-> big_five.extraversion,
                 conscientiousness |-> big_five.conscientiousness,
                 relocation_openness |-> life.relocation_openness,
                 career_intensity |-> life.career_intensity,
                 define_intentions_early |-> life.define_intentions_early,
                 kids_timeline_value |->
                     IF life.kids_timeline = "0_3_years" THEN Unit
                     ELSE IF life.kids_timeline = "3_7_years" THEN 660000
                     ELSE IF life.kids_timeline = "later" THEN 330000
                     ELSE half]
    IN  IF missing # {}
        THEN [error |-> <<missing>>, profile |-> <<>>]
        ELSE [error |-> <<>>,
              profile |-> <<[traits_version |-> TRAITS_VERSION,
                             survey_slug |-> "match-core-v3",
                             survey_version |-> 1,
                             big_five |-> big_five,
                             emotional_regulation |-> [stability |-> emotional_stability],
                             conflict |-> conflict,
                             attachment |-> attachment,
                             life |-> life,
                             tradeoffs |-> tradeoffs,
                             dimensions |-> dims,
                             copy_only |-> CopyOnly(qmeta, answers)]>>]

\* traits.py 101-149: big5 holds the mean of the likert answers whose code is
\* BF_<letter>_...
_compute_traits_legacy_v1(survey_def, answers) ==
    LET qmeta == _build_question_meta(survey_def)
        bf == [O |-> <<"BF_O_01">>, C |-> <<"BF_C_01">>, E |-> <<"BF_E_01">>,
               A |-> <<"BF_A_01">>, N |-> <<"BF_N_01">>]
        v(code) == IF code \in DOMAIN answers /\ code \in DOMAIN qmeta
                      /\ qmeta[code].response_type = "likert_1_5"
                   THEN _normalize_likert(answers[code], qmeta[code].reverse_coded)
                   ELSE <<>>
        big5(letter) == _mean([i \in DOMAIN bf[letter] |-> v(bf[letter][i])], Unit \div 2)
    IN  [error |-> <<>>,
         profile |-> <<[traits_version |-> 2,
                        survey_slug |-> survey_def.survey.slug,
                        survey_version |-> survey_def.survey.version,
                        big5 |-> [openness |-> big5("O"), conscientiousness |-> big5("C"),
                                  extraversion |-> big5("E"), agreeableness |-> big5("A"),
                                  neuroticism |-> big5("N")],
                        life_constraints |-> [kids_preference |-> AnswerOf(answers, "LA_KIDS_01")],
                        modifiers |-> [kids |->
                            [importance |-> OrHalf(_normalize_likert(AnswerOf(answers, "MOD_KIDS_IMPORTANCE"), FALSE)),
                             flexibility |-> OrHalf(_normalize_likert(AnswerOf(answers, "MOD_KIDS_FLEXIBILITY"), FALSE))]],
                        copy_only |-> [vibe |-> <<>>, school |-> <<>>]]>>]

\* traits.py 295-301
compute_traits(survey_def, answers) ==
    IF survey_def.survey.slug = "match-core-v3" /\ survey_def.survey.version = 1
    THEN compute_traits_match_core_v3(survey_def, answers)
    ELSE _compute_traits_legacy_v1(survey_def, answers)

(***************************************************************************)
(* The surveys and answers of the trait check.  A survey has the kids      *)
(* questions (KIDS_02 required, shown when KIDS_01 is yes or probably),    *)
(* the likert questions REP_01, ER_01 and BF_O_01 and the text question    *)
(* VIBE_01; the reverse coding of the likert questions varies, and of      *)
(* REP_01 the usage, the required flag and a show_if rule.                 *)
(***************************************************************************)
TraitSurveys ==
    LET q(code, rt, req, rev, usage) ==
            [code |-> code, response_type |-> rt, is_required |-> req, allow_skip |-> FALSE,
             reverse_coded |-> rev, usage |-> usage, region_tag |-> "GLOBAL"]
        show(op, value) == <<[type |-> "show_if", trigger_question_code |-> "KIDS_01",
                              operator |-> op, trigger_value |-> value]>>
    IN  {[survey |-> [slug |-> slug, version |-> 1],
          screens |-> << <<[question |-> q("KIDS_01", "single_select", TRUE, FALSE, "SCORING"), rules |-> <<>>],
                           [question |-> q("KIDS_02", "single_select", TRUE, FALSE, "SCORING"),
                            rules |-> show("in", {"yes", "probably"})]>>,
                         <<[question |-> q("REP_01", "likert_1_5", req, rev, usage), rules |-> rules],
                           [question |-> q("ER_01", "likert_1_5", FALSE, rev, "SCORING"), rules |-> <<>>],
                           [question |-> q("BF_O_01", "likert_1_5", FALSE, rev, "SCORING"), rules |-> <<>>],
                           [question |-> q("VIBE_01", "text", FALSE, FALSE, "COPY_ONLY"), rules |-> <<>>]>> >>] :
            slug \in {SURVEY_SLUG, "match-core-v1"}, req \in BOOLEAN, rev \in BOOLEAN,
            usage \in {"SCORING", "COPY_ONLY"}, rules \in {<<>>, show("eq", "yes")}}

\* the answers that give each question the value named for it (Absent: no row)
Absent == "absent"
AnswersWith(row) == [c \in {d \in DOMAIN row : row[d] # Absent} |-> row[c]]
AnswerChoices ==
    [KIDS_01 |-> {Absent, "yes", "no"}, KIDS_02 |-> {Absent, "later"},
     REP_01 |-> {Absent, None, "", "0", "1", "2", "3", "4", "5"},
     ER_01 |-> {Absent, "2", "5"}, BF_O_01 |-> {Absent, "2"}, VIBE_01 |-> {Absent, "a", "b"}]
RowsOver(S) ==
    [KIDS_01 : S.KIDS_01, KIDS_02 : S.KIDS_02, REP_01 : S.REP_01, ER_01 : S.ER_01,
     BF_O_01 : S.BF_O_01, VIBE_01 : S.VIBE_01]

InitTraits ==
    /\ DbEmpty
    /\ pc = "compute_traits"
    /\ call \in [survey_def : TraitSurveys, row : RowsOver(AnswerChoices)]
    /\ ret = None

CallComputeTraits ==
    /\ pc = "compute_traits"
    /\ ret' = compute_traits(call.survey_def, AnswersWith(call.row))
    /\ pc' = "returned"
    /\ UNCHANGED <<call, dbVars>>

NextTraits == CallComputeTraits
SpecTraits == InitTraits /\ [][NextTraits]_vars

\* the required questions of the survey that their rules show and that have
\* no answer
VisibleRequiredUnanswered ==
    LET items == ItemsOf(call.survey_def.screens)
        answers == AnswersWith(call.row)
    IN  {items[i].question.code : i \in {j \in DOMAIN items :
            /\ items[j].question.is_required
            /\ item_is_visible(items[j].rules, answers)
            /\ AnswerOf(answers, items[j].question.code) \in {None, ""}}}

\* C18: trait computation fails, listing the offending codes and returning
\* no profile, exactly when a required question that its rules show has no
\* answer (absent, null or empty), under the current and the legacy schedule.
C18_FailsExactlyOnVisibleRequired ==
    pc = "returned" =>
        IF VisibleRequiredUnanswered # {}
        THEN ret.error = <<VisibleRequiredUnanswered>> /\ ret.profile = <<>>
        ELSE ret.error = <<>> /\ ret.profile # <<>>

CurrentSchedule == call.survey_def.survey.slug = SURVEY_SLUG /\ call.survey_def.survey.version = 1
LikertValue(code) == _coerce_likert(call.row[code])
LikertExpected(code) ==
    LET x == ((LikertValue(code)[1] - 1) * Unit) \div 4
    IN  IF _build_question_meta(call.survey_def)[code].reverse_coded THEN Unit - x ELSE x

\* C19: for every Likert answer v in 1..5, a dimension fed by a single
\* Likert question is (v-1)/4, or 1 - (v-1)/4 when the question is
\* reverse-coded; 0.5 stands in only for an absent or invalid answer.  (Of
\* the questions of the survey, REP_01 alone feeds approach and ER_01 alone
\* feeds stability.)
C19_SingleLikertExact ==
    (pc = "returned" /\ CurrentSchedule /\ ret.profile # <<>>) =>
        /\ (_build_question_meta(call.survey_def)["REP_01"].usage = "SCORING" /\ LikertValue("REP_01") # <<>>) =>
              /\ ret.profile[1].conflict.approach = LikertExpected("REP_01")
              /\ ret.profile[1].dimensions.approach = LikertExpected("REP_01")
        /\ LikertValue("ER_01") # <<>> =>
              /\ ret.profile[1].emotional_regulation.stability = LikertExpected("ER_01")
              /\ ret.profile[1].dimensions.stability = LikertExpected("ER_01")

\* the answers that differ from those of the call only in what they give to
\* the questions tagged COPY_ONLY
CopyOnlyVariants ==
    LET qmeta == _build_question_meta(call.survey_def)
    IN  RowsOver([c \in DOMAIN call.row |->
                    IF qmeta[c].usage = "COPY_ONLY" THEN AnswerChoices[c] ELSE {call.row[c]}])
ScoringFields(profile) == [f \in DOMAIN profile \ {"copy_only"} |-> profile[f]]

MaxDefinitions == 3
Contents == {"a", "b"}

ActiveIds(t) == {i \in DOMAIN t : t[i].is_active}
MaxVersion(t) == IF t = <<>> THEN 0 ELSE CHOOSE v \in {t[i].version : i \in DOMAIN t} :
                                            \A i \in DOMAIN t : t[i].version <= v
\* ORDER BY version DESC, created_at DESC LIMIT 1 over the drafts (0: no row)
LatestDraft(t) ==
    LET drafts == {i \in DOMAIN t : t[i].status = "draft"}
    IN  IF drafts = {} THEN 0
        ELSE CHOOSE i \in drafts : \A j \in drafts :
                \/ t[j].version < t[i].version
                \/ t[j].version = t[i].version /\ j <= i
Deactivated(t) == [i \in DOMAIN t |-> [t[i] EXCEPT !.is_active = FALSE]]
DefinitionRow(version, status, is_active, definition_json) ==
    [version |-> version, status |-> status, is_active |-> is_active,
     definition_json |-> definition_json, definition_hash |-> sha256_hex(definition_json)]
\* the definition a row of survey_definition holds, and the rows in the order
\* of _definitions_for_slug (ORDER BY version DESC, created_at DESC)
DefinitionOf(row) == [version |-> row.version, screens |-> row.definition_json]
ByVersionDesc(t) ==
    [k \in DOMAIN t |->
        DefinitionOf(t[CHOOSE i \in DOMAIN t :
                          Cardinality({j \in DOMAIN t : \/ t[j].version > t[i].version
                                                        \/ t[j].version = t[i].version /\ j > i}) = k - 1])]
\* what the survey requests of a user read (call of SpecSurvey), taken from
\* the tables: the active definition, the rows of survey_definition and the
\* user's last session
RuntimeView(t, session) ==
    [current |-> DefinitionOf(t[CHOOSE i \in ActiveIds(t) : TRUE]),
     answered |-> DefinitionOf(t[CHOOSE i \in ActiveIds(t) : TRUE]),
     latest |-> session,
     stored |-> ByVersionDesc(t)]
AdminStep(table, op, id) ==
    /\ survey' = [survey EXCEPT !.definition = table]
    /\ ret' = [op |-> op, id |-> id]
    /\ call' = IF pc = "db" THEN call ELSE RuntimeView(table, survey.session)
    /\ UNCHANGED <<assign, blocks, now, pc, logs, txn, recon>>

\* survey_admin_repo.py 102-134
bootstrap_initial_definition(version, definition_json) ==
    LET t == survey.definition
    IN  IF ActiveIds(t) # {}
        THEN AdminStep(t, "bootstrap", 0)
        ELSE /\ Len(t) < MaxDefinitions
             /\ AdminStep(Append(t, DefinitionRow(version, "published", TRUE, definition_json)),
                          "bootstrap", Len(t) + 1)

\* survey_admin_repo.py 137-186
create_draft_from_active ==
    LET t == survey.definition
    IN  IF ActiveIds(t) = {}
        THEN AdminStep(t, "create_draft_from_active", 0)
        ELSE /\ Len(t) < MaxDefinitions
             /\ \E a \in ActiveIds(t) :
                    AdminStep(Append(t, DefinitionRow(MaxVersion(t) + 1, "draft", FALSE, t[a].definition_json)),
                              "create_draft_from_active", Len(t) + 1)

\* survey_admin_repo.py 189-228
update_latest_draft(definition_json) ==
    LET t == survey.definition
        d == LatestDraft(t)
    IN  IF d = 0
        THEN AdminStep(t, "update_draft", 0)
        ELSE AdminStep([t EXCEPT ![d] = DefinitionRow(t[d].version, "draft", t[d].is_active, definition_json)],
                       "update_draft", d)

\* A slip a maintainer could make: the draft activated without the UPDATE
\* that deactivates the active row.
publish_latest_draft_keeps_active ==
    LET t == survey.definition
        d == LatestDraft(t)
    IN  IF d = 0
        THEN AdminStep(t, "publish", 0)
        ELSE AdminStep([t EXCEPT ![d] = [@ EXCEPT !.status = "published", !.is_active = TRUE]], "publish", d)

\* survey_admin_repo.py 231-265
publish_latest_draft ==
    LET t == survey.definition
        d == LatestDraft(t)
    IN  IF d = 0
        THEN AdminStep(t, "publish", 0)
        ELSE AdminStep([Deactivated(t) EXCEPT ![d] = [@ EXCEPT !.status = "published", !.is_active = TRUE]],
                       "publish", d)

\* survey_admin_repo.py 268-302 (LIMIT 1 without an order: any published row
\* of the version)
rollback_to_published_version(version) ==
    LET t == survey.definition
        targets == {i \in DOMAIN t : t[i].version = version /\ t[i].status = "published"}
    IN  IF targets = {}
        THEN AdminStep(t, "rollback", 0)
        ELSE \E target \in targets :
                AdminStep([Deactivated(t) EXCEPT ![target] = [@ EXCEPT !.is_active = TRUE]], "rollback", target)

\* survey_admin_repo.py 305-369
initialize_active_from_code(definition_json, force) ==
    LET t == survey.definition
    IN  IF ActiveIds(t) # {} /\ ~force
        THEN AdminStep(t, "initialize_from_code", 0)
        ELSE /\ Len(t) < MaxDefinitions
             /\ AdminStep(Append(Deactivated(t), DefinitionRow(MaxVersion(t) + 1, "published", TRUE, definition_json)),
                          "initialize_from_code", Len(t) + 1)

InitAdmin ==
    /\ DbEmpty
    /\ pc = "db"
    /\ call = None
    /\ ret = [op |-> None, id |-> 0]

NextAdmin ==
    \/ \E v \in 1..MaxDefinitions, c \in Contents : bootstrap_initial_definition(v, c)
    \/ create_draft_from_active
    \/ \E c \in Contents : update_latest_draft(c)
    \/ publish_latest_draft
    \/ \E v \in 1..MaxDefinitions : rollback_to_published_version(v)
    \/ \E c \in Contents, force \in BOOLEAN : initialize_active_from_code(c, force)
SpecAdmin == InitAdmin /\ [][NextAdmin]_vars

\* C21: after any sequence of bootstrap, create-draft, update-draft, publish,
\* rollback and initialize-from-code requests on a slug, at most one
\* definition of the slug is active, and after a publish that found a draft
\* the active definition is that draft, now published.
C21_OneActiveDefinition ==
    /\ Cardinality(ActiveIds(survey.definition)) <= 1
    /\ (ret.op = "publish" /\ ret.id # 0) =>
          /\ ActiveIds(survey.definition) = {ret.id}
          /\ survey.definition[ret.id].status = "published"

\* a draft was published while another definition was active
C21_Witness ==
    /\ ret.op = "publish"
    /\ ret.id # 0
    /\ \E i \in DOMAIN survey.definition :
          /\ i # ret.id
          /\ survey.definition[i].status = "published"
          /\ ~survey.definition[i].is_active

(***************************************************************************)
(* Weekly runs over several weeks.  A run is for the week of now, or for   *)
(* the week given as week_start_override; the clock advances by a week.    *)
(***************************************************************************)
MaxWeeks == 2
RunWeeks == {DAYS_PER_WEEK * i : i \in 0..(MaxWeeks - 1)}
WeekRuns ==
    {[world |-> w, eligible |-> e, week_start |-> ws, blocked_pairs |-> {},
      assignments |-> WeeklyMatching(w, e, ws, {}, {})] :
        w \in PoolWorlds, e \in {Users, Users \ {NumUsers}}, ws \in RunWeeks}

InitWeeks ==
    /\ assign = [k \in RunWeeks \X Users |-> NoRow]
    /\ blocks = {}
    /\ now = 0
    /\ logs = {}
    /\ txn = [pc |-> "idle"]
    /\ recon = <<>>
    /\ survey = [definition |-> <<>>, session |-> <<>>, user_traits |-> <<>>]
    /\ pc = "db"
    /\ call = [week_start_date |-> 0, users |-> {}, overridden |-> FALSE]
    /\ ret = [created_assignments |-> 0, deleted |-> 0]

\* repo_run_weekly_matching(now, force, week_start_override); the argument is
\* <<>> (None) or <<week>>
repo_run_weekly_matching_for(force, week_start_override) ==
    LET week_start == IF week_start_override # <<>> THEN week_start_override[1] ELSE WeekStart(now)
        existing == Cardinality(RowsOfWeek(assign, week_start))
    IN  IF existing > 0 /\ ~force
        THEN /\ ret' = [created_assignments |-> 0, deleted |-> 0]
             /\ UNCHANGED <<assign, blocks, now, pc, call, logs, txn, recon, survey>>
        ELSE \E pool \in {r \in WeekRuns : r.week_start = week_start} :
             \E plan \in {RunPlanFor(pool, assign, logs, blocks, week_start, now)} :
                /\ \A i \in 1..Len(plan.notify) : ~EnqueueWaits(plan, i)
                /\ assign' = plan.assign
                /\ logs' = (logs \ plan.deleted_logs) \cup plan.session_logs \cup Enqueued(plan, Len(plan.notify))
                /\ call' = [week_start_date |-> week_start, users |-> plan.users,
                            overridden |-> call.overridden \/ week_start_override # <<>>]
                /\ ret' = [created_assignments |-> plan.created_assignments, deleted |-> plan.deleted]
                /\ UNCHANGED <<blocks, now, pc, txn, recon, survey>>

\* the clock advances by a week
TickWeek ==
    /\ now + DAYS_PER_WEEK \in RunWeeks
    /\ now' = now + DAYS_PER_WEEK
    /\ UNCHANGED <<assign, blocks, pc, call, ret, logs, txn, recon, survey>>

NextWeeks ==
    \/ \E force \in BOOLEAN, week_start_override \in {<<>>} \cup {<<w>> : w \in RunWeeks} :
          repo_run_weekly_matching_for(force, week_start_override)
    \/ TickWeek
SpecWeeks == InitWeeks /\ [][NextWeeks]_vars

\* the pairs holding a matched row in a week
MatchedPairs(a, week_start_date) ==
    {canonical_pair(k[2], a[k].matched_user_id) :
        k \in {k \in DOMAIN a : /\ k[1] = week_start_date
                                 /\ a[k].status \notin {"absent", "no_match"}
                                 /\ a[k].matched_user_id # 0}}

NoRepeatWithinLookback ==
    \A w1 \in RunWeeks, w2 \in RunWeeks :
        (w1 < w2 /\ w2 - w1 <= DAYS_PER_WEEK * LOOKBACK_WEEKS) =>
            MatchedPairs(assign, w1) \cap MatchedPairs(assign, w2) = {}

\* C22: over any sequence of weekly runs, forced re-runs and runs for an
\* explicitly given week included, no pair holds a matched assignment in two
\* different weeks that are at most lookback_weeks apart.
C22_NoRepeatWithinLookback == NoRepeatWithinLookback

\* the same while no run was given a week
NoRepeatWithoutOverride == call.overridden \/ NoRepeatWithinLookback

(***************************************************************************)
(* Two lifecycle requests at a time.  Each request works in a session of   *)
(* its own: it reads its user's row, computes the transition from the row  *)
(* it read, and when the status changes issues the two UPDATEs of          *)
(* _apply_status and commits.  An UPDATE waits while another open session  *)
(* holds the row (it has updated it and not yet committed) and then        *)
(* applies to the committed row; two sessions waiting for each other are   *)
(* resolved by the database aborting one of them.                          *)
(***************************************************************************)
NoRequest == [user_id |-> 0, action |-> None, status |-> None, matched_user_id |-> 0, new_status |-> None]

\* the rows a request has updated and not committed
RowsHeld(r) ==
    (IF pc[r] \in {"own", "both"} THEN {<<WeekStart(0), call[r].user_id>>} ELSE {})
    \cup (IF pc[r] = "both" /\ call[r].matched_user_id # 0
          THEN {<<WeekStart(0), call[r].matched_user_id>>} ELSE {})
HeldByOther(r, k) == \E r2 \in Requests \ {r} : k \in RowsHeld(r2)

\* the two UPDATEs of _apply_status, applied to the committed table
ApplyStatusWrites(a, week_start, user_id, matched_user_id, new_status) ==
    LET a1 == IF a[<<week_start, user_id>>].status # "absent"
              THEN [a EXCEPT ![<<week_start, user_id>>].status = new_status] ELSE a
    IN  IF matched_user_id # 0 /\ a1[<<week_start, matched_user_id>>].status # "absent"
           /\ a1[<<week_start, matched_user_id>>].matched_user_id = user_id
        THEN [a1 EXCEPT ![<<week_start, matched_user_id>>].status = new_status]
        ELSE a1

InitLifecycle ==
    /\ assign = create_weekly_assignments([k \in Weeks \X Users |-> NoRow], WeekStart(0),
                                          MATCH_EXPIRY_HOURS \div HOURS_PER_DAY,
                                          <<[user_id |-> 1, matched_user_id |-> 2]>>, {})
    /\ blocks = {}
    /\ now = 0
    /\ logs = {}
    /\ txn = [pc |-> "idle"]
    /\ recon = <<>>
    /\ survey = [definition |-> <<>>, session |-> <<>>, user_traits |-> <<>>]
    /\ pc = [r \in Requests |-> "idle"]
    /\ call = [r \in Requests |-> NoRequest]
    /\ ret = [r \in Requests |-> None]

\* _fetch_current_row and transition_status of repo_get_current_match
\* (action "view") and repo_update_current_match_status
LifecycleRead(r, user_id, action) ==
    LET row == _fetch_current_row(assign, user_id, WeekStart(now))
        new_status == transition_status(row.status, action, now, row.expires_at)
    IN  /\ pc[r] = "idle"
        /\ row.status # "absent"
        /\ call' = [call EXCEPT ![r] = [user_id |-> user_id, action |-> action, status |-> row.status,
                                        matched_user_id |-> row.matched_user_id, new_status |-> new_status]]
        /\ IF new_status # row.status
           THEN pc' = [pc EXCEPT ![r] = "read"] /\ UNCHANGED ret
           ELSE pc' = pc /\ ret' = [ret EXCEPT ![r] = row.status]
        /\ UNCHANGED <<assign, blocks, now, logs, txn, recon, survey>>

\* UPDATE weekly_match_assignment SET status = :status WHERE id = :id
LifecycleUpdateOwn(r) ==
    /\ pc[r] = "read"
    /\ ~HeldByOther(r, <<WeekStart(0), call[r].user_id>>)
    /\ pc' = [pc EXCEPT ![r] = "own"]
    /\ UNCHANGED <<assign, blocks, now, call, ret, logs, txn, recon, survey>>

\* UPDATE ... WHERE user_id = :other_user AND matched_user_id = :user_id
LifecycleUpdateOther(r) ==
    /\ pc[r] = "own"
    /\ call[r].matched_user_id # 0 => ~HeldByOther(r, <<WeekStart(0), call[r].matched_user_id>>)
    /\ pc' = [pc EXCEPT ![r] = "both"]
    /\ UNCHANGED <<assign, blocks, now, call, ret, logs, txn, recon, survey>>

\* db.commit()
LifecycleCommit(r) ==
    /\ pc[r] = "both"
    /\ assign' = ApplyStatusWrites(assign, WeekStart(0), call[r].user_id, call[r].matched_user_id,
                                   call[r].new_status)
    /\ pc' = [pc EXCEPT ![r] = "idle"]
    /\ ret' = [ret EXCEPT ![r] = call[r].new_status]
    /\ UNCHANGED <<blocks, now, call, logs, txn, recon, survey>>

\* each of the two sessions waits for the row the other one holds: the
\* database aborts one, whose request fails without a write
LifecycleDeadlock(r) ==
    /\ pc[r] = "own"
    /\ call[r].matched_user_id # 0
    /\ \E r2 \in Requests \ {r} :
          /\ pc[r2] = "own"
          /\ call[r2].matched_user_id = call[r].user_id
          /\ call[r].matched_user_id = call[r2].user_id
    /\ pc' = [pc EXCEPT ![r] = "idle"]
    /\ ret' = [ret EXCEPT ![r] = "deadlock detected"]
    /\ UNCHANGED <<assign, blocks, now, call, logs, txn, recon, survey>>

NextLifecycle ==
    \/ \E r \in Requests, user_id \in Users, action \in {"view", "accept", "decline"} :
          LifecycleRead(r, user_id, action)
    \/ \E r \in Requests : LifecycleUpdateOwn(r)
    \/ \E r \in Requests : LifecycleUpdateOther(r)
    \/ \E r \in Requests : LifecycleCommit(r)
    \/ \E r \in Requests : LifecycleDeadlock(r)
    \/ Tick
SpecLifecycle == InitLifecycle /\ [][NextLifecycle]_vars

\* a request's write changes a row whose status is no longer the one the
\* request read
StaleWrite ==
    \E r \in Requests :
        /\ pc[r] = "both"
        /\ pc'[r] = "idle"
        /\ assign' # assign
        /\ assign[<<WeekStart(0), call[r].user_id>>].status # call[r].status

\* C23: when two lifecycle requests on the same pair interleave, a write takes
\* effect only if the row's status is still the one the request read; a
\* persisted status never changes from accepted to declined, from declined to
\* accepted, or away from expired.
C23_CompareAndSet ==
    [][/\ ~StaleWrite
       /\ \A k \in DOMAIN assign :
             /\ ~(assign[k].status = "accepted" /\ assign'[k].status = "declined")
             /\ ~(assign[k].status = "declined" /\ assign'[k].status = "accepted")
             /\ assign[k].status = "expired" => assign'[k].status = "expired"]_vars

(***************************************************************************)
(* Two weekly runs for the same week at a time, each in a session of its   *)
(* own.  A run reads the committed rows; its DELETE and its INSERTs stay   *)
(* its own until it commits.  A DELETE or an INSERT ... ON CONFLICT waits  *)
(* while the other open session holds the row (it has deleted or inserted  *)
(* it); an INSERT that finds a committed row does nothing.  The clock      *)
(* stands still, and the log and outbox tables are left out here.          *)
(***************************************************************************)
MaxRuns == 3
OverlapRuns == {r \in PlainRuns : Cardinality(Users \ r.eligible) <= 1}
NoOverlapRun == [id |-> 0, delete |-> {}, deleted |-> {}, todo |-> <<>>, n |-> 0, inserted |-> {}]

\* the INSERTs of create_weekly_assignments in the order they are issued (the
\* unmatched users by id)
InsertsOf(assignments, unmatched_user_ids, expires_at) ==
    LET ids == SortedSeq(unmatched_user_ids)
    IN  [i \in 1..(2 * Len(assignments)) |->
            IF i % 2 = 1
            THEN [user_id |-> assignments[(i + 1) \div 2].user_id,
                  row |-> ProposedRow(assignments[(i + 1) \div 2].matched_user_id, expires_at)]
            ELSE [user_id |-> assignments[i \div 2].matched_user_id,
                  row |-> ProposedRow(assignments[i \div 2].user_id, expires_at)]]
        \o [i \in 1..Len(ids) |-> [user_id |-> ids[i], row |-> NoMatchRow(expires_at)]]

\* the users whose row of the week a run holds
HeldByRun(r) == call[r].deleted \cup call[r].inserted
WeekUsers(a) == {u \in Users : a[<<WeekStart(0), u>>].status # "absent"}

InitOverlap ==
    /\ DbEmpty
    /\ pc = [r \in Requests |-> "idle"]
    /\ call = [r \in Requests |-> NoOverlapRun]
    /\ ret = [runs |-> 0, owner |-> [u \in Users |-> 0]]

\* main.py 768-786: the count of the week's rows and the early return
OverlapBegin(r, force) ==
    /\ pc[r] = "idle"
    /\ ret.runs < MaxRuns
    /\ IF WeekUsers(assign) # {} /\ ~force
       THEN UNCHANGED vars
       ELSE \E pool \in OverlapRuns :
              /\ call' = [call EXCEPT ![r] =
                    [id |-> ret.runs + 1, delete |-> WeekUsers(assign), deleted |-> {},
                     todo |-> InsertsOf(pool.assignments,
                                        UnmatchedUserIds(fetch_eligible_users(pool.world, pool.eligible),
                                                         pool.assignments),
                                        now + MATCH_EXPIRY_HOURS \div HOURS_PER_DAY),
                     n |-> 0, inserted |-> {}]]
              /\ pc' = [pc EXCEPT ![r] = IF WeekUsers(assign) # {} THEN "delete" ELSE "insert"]
              /\ ret' = [ret EXCEPT !.runs = ret.runs + 1]
              /\ UNCHANGED dbVars

\* main.py 788-797: DELETE FROM weekly_match_assignment WHERE week_start_date.
\* The rows deleted are the committed rows when the statement starts: those
\* the run counted that are still there (the statement had to wait for the
\* other run), or the rows of the week as they are now.
OverlapDelete(r) ==
    /\ pc[r] = "delete"
    /\ \E rows \in {call[r].delete, WeekUsers(assign)} :
          /\ \A r2 \in Requests \ {r} : rows \cap HeldByRun(r2) = {}
          /\ call' = [call EXCEPT ![r].deleted = rows]
    /\ pc' = [pc EXCEPT ![r] = "insert"]
    /\ UNCHANGED <<ret, dbVars>>

\* the next INSERT ... ON CONFLICT (week_start_date, user_id) DO NOTHING
OverlapInsert(r) ==
    LET next == call[r].todo[call[r].n + 1]
        u == next.user_id
    IN  /\ pc[r] = "insert"
        /\ call[r].n < Len(call[r].todo)
        /\ \A r2 \in Requests \ {r} : u \notin HeldByRun(r2)
        /\ call' = [call EXCEPT ![r].n = @ + 1,
                                ![r].inserted = IF u \in WeekUsers(assign) /\ u \notin call[r].deleted
                                                THEN @ ELSE @ \cup {u}]
        /\ UNCHANGED <<pc, ret, dbVars>>

\* the table after the run's commit
OverlapCommitted(a, run) ==
    [k \in DOMAIN a |->
        IF k[2] \in run.inserted
        THEN run.todo[CHOOSE i \in 1..Len(run.todo) : run.todo[i].user_id = k[2]].row
        ELSE IF k[2] \in run.deleted THEN NoRow ELSE a[k]]

\* main.py 918: db.commit()
OverlapCommit(r) ==
    /\ pc[r] = "insert"
    /\ call[r].n = Len(call[r].todo)
    /\ assign' = OverlapCommitted(assign, call[r])
    /\ ret' = [ret EXCEPT !.owner = [u \in Users |->
                  IF u \in call[r].inserted THEN call[r].id
                  ELSE IF u \in call[r].deleted THEN 0 ELSE ret.owner[u]]]
    /\ call' = [r2 \in Requests |->
                  IF r2 = r THEN NoOverlapRun
                  ELSE [call[r2] EXCEPT !.delete = @ \ call[r].deleted]]
    /\ pc' = [pc EXCEPT ![r] = "idle"]
    /\ UNCHANGED <<blocks, now, logs, txn, recon, survey>>

\* an exception (the database aborting a session that waits for the other
\* while the other waits for it, or any other): the session is rolled back
OverlapAbort(r) ==
    /\ pc[r] \in {"delete", "insert"}
    /\ call' = [call EXCEPT ![r] = NoOverlapRun]
    /\ pc' = [pc EXCEPT ![r] = "idle"]
    /\ UNCHANGED <<ret, dbVars>>

NextOverlap ==
    \/ \E r \in Requests, force \in BOOLEAN : OverlapBegin(r, force)
    \/ \E r \in Requests : OverlapDelete(r)
    \/ \E r \in Requests : OverlapInsert(r)
    \/ \E r \in Requests : OverlapCommit(r)
    \/ \E r \in Requests : OverlapAbort(r)
SpecOverlap == InitOverlap /\ [][NextOverlap]_vars

\* C24: two weekly runs for the same week that overlap in time cannot both
\* write assignments: the committed rows of the week all come from one run.
C24_RowsOfOneRun ==
    Cardinality({ret.owner[u] : u \in WeekUsers(assign)}) <= 1

(***************************************************************************)
(* The general path of stable_match (SpecMatch)                            *)
(***************************************************************************)
GeneralPathTaken ==
    /\ pc = "returned"
    /\ ~(call.mode = "stable_bipartite_if_possible" /\ _is_bipartite_hetero_pool(call.users))
CallPrefs == _build_preference_lists(call.users, ret.pairs, call.min_score, call.top_k, call.week_start_date)
\* t holds p's proposal and p holds t's
MutuallyAccepted(held_by, p, t) == held_by[t] = p /\ held_by[p] = t

\* C25: in the general path every pair (p, t) the matching emits is mutually
\* accepted, t holding p's proposal and p holding t's at the end of the
\* proposal rounds; a pair held on one side only is not emitted.
C25_GeneralPairsMutual ==
    GeneralPathTaken =>
        \A pair \in _stable_general_match(call.users, CallPrefs) :
            MutuallyAccepted(GeneralHeldBy(call.users, CallPrefs), pair[1], pair[2])

(***************************************************************************)
(* The survey endpoints of one user, one request after the other: POST     *)
(* /survey/reconcile, GET /survey/status and POST /survey/continue, and    *)
(* the administrator's reconcile-and-recompute pass.  call holds what the  *)
(* requests read and do not change: the active definition, the rows of     *)
(* survey_definition and the user's last session with its survey_answer    *)
(* rows.  A row of user_traits keeps, in place of the profile, the answers *)
(* compute_traits was given (the computation is followed in SpecTraits).   *)
(* ret is the last request: its patch, and for POST /survey/continue       *)
(* whether the patch has made an incomplete state complete.                *)
(***************************************************************************)
OneScreen(d) == Len(d.screens) = 1 /\ d.screens[1][1].question.code = "Q1"

InitSurvey ==
    /\ assign = [k \in Weeks \X Users |-> NoRow]
    /\ blocks = {}
    /\ now = 0
    /\ logs = {}
    /\ txn = [pc |-> "idle"]
    /\ recon = <<>>
    /\ pc = "db"
    /\ ret = [op |-> None, patch |-> <<>>, is_complete |-> FALSE, traits |-> None]
    /\ \E old \in {d \in Definitions(1) : /\ OneScreen(d)
                                          /\ \A i \in DOMAIN ItemsOf(d.screens) :
                                                ItemsOf(d.screens)[i].question.text = "p"} :
       \E current \in {old} \cup {d \in Definitions(2) : OneScreen(d)} :
       \E answers \in UNION {[D -> {"yes", "no", "x"}] : D \in SUBSET DOMAIN build_question_index(old)} :
           /\ "Q1" \in DOMAIN answers /\ answers["Q1"] # "x"
           /\ "Q2" \in DOMAIN answers => answers["Q2"] = "x"
           /\ call = [current |-> current, answered |-> old,
                      latest |-> <<[survey_hash |-> sha256_hex(old), survey_version |-> old.version,
                                    answers |-> answers]>>,
                      stored |-> IF current = old THEN <<old>> ELSE <<current, old>>]
           /\ survey = [definition |-> IF current = old THEN <<old>> ELSE <<current, old>>,
                        session |-> <<[survey_hash |-> sha256_hex(old), survey_version |-> old.version,
                                       answers |-> answers]>>,
                        user_traits |-> <<>>]

\* the row of survey_reconciliation_state of the user for the active definition
StateRows(table) ==
    {i \in DOMAIN table : /\ table[i].user_id = 1
                          /\ table[i].survey_slug = SURVEY_SLUG
                          /\ table[i].current_survey_hash = sha256_hex(call.current)}

\* survey_reconciliation.py 313-381; table is the state table after the
\* reconciliation the function runs when it finds no row
get_user_survey_status(table) ==
    LET Status(row, visible_required) ==
            LET missing_ids == {qid \in row.missing_question_ids :
                                   /\ qid \in visible_required
                                   /\ AnswerOf(row.answers_current, qid) \in {None, ""}}
            IN  [table |-> IF StateRows(table) = {} THEN Upsert(table, row) ELSE table,
                 answers_current |-> row.answers_current,
                 missing_question_ids |-> missing_ids,
                 is_complete |-> missing_ids = {}]
        Found(row) == Status(row, _get_visible_required_questions(call.current, row.answers_current))
    IN  IF StateRows(table) = {}
        THEN Found([user_id |-> 1] @@ Reconciled(call.current, call.latest, _definitions_for_slug(call.stored)))
        ELSE Found(table[CHOOSE i \in StateRows(table) : TRUE])

\* survey_reconciliation.py 384-441: the table after the UPDATE
upsert_reconciled_answers(table, answers_patch) ==
    LET Updated(status, required_ids) ==
            LET merged == answers_patch @@ status.answers_current
                missing == {qid \in required_ids : AnswerOf(merged, qid) \in {None, ""}}
            IN  [i \in DOMAIN status.table |->
                    IF i \in StateRows(status.table)
                    THEN [status.table[i] EXCEPT !.answers_current = merged,
                                                 !.missing_question_ids = missing,
                                                 !.needs_retake = missing # {}]
                    ELSE status.table[i]]
    IN  Updated(get_user_survey_status(table), get_active_survey_runtime(call.current).required_question_ids)

\* survey_reconciliation.py 444-553: [table, user_traits, result]; result is
\* "raised" when compute_traits raises on a missing required answer
recompute_user_traits_if_ready(table, user_traits) ==
    LET Recomputed(status, runtime) ==
            LET existing == {i \in DOMAIN user_traits : user_traits[i].survey_version = runtime.version}
                needs == \/ existing = {}
                         \/ \E i \in existing : \/ user_traits[i].computed_for_survey_hash = <<>>
                                                \/ user_traits[i].traits_schema_version = 0
                row == [survey_version |-> runtime.version, computed_for_survey_hash |-> runtime.hash,
                        traits_schema_version |-> TRAITS_VERSION, answers |-> status.answers_current]
            IN  IF ~status.is_complete
                THEN [table |-> status.table, user_traits |-> user_traits, result |-> "missing_required_questions"]
                ELSE IF ~needs
                THEN [table |-> status.table, user_traits |-> user_traits, result |-> "already_current"]
                ELSE IF runtime.version = 1 /\ _required_missing_codes(call.current, status.answers_current) # {}
                THEN [table |-> status.table, user_traits |-> user_traits, result |-> "raised"]
                ELSE [table |-> status.table,
                      user_traits |-> IF existing = {} THEN Append(user_traits, row)
                                      ELSE [i \in DOMAIN user_traits |->
                                               IF i \in existing THEN row ELSE user_traits[i]],
                      result |-> "recomputed"]
    IN  Recomputed(get_user_survey_status(table), get_active_survey_runtime(call.current))

SurveyStep(table, user_traits, result) ==
    /\ recon' = table
    /\ survey' = [survey EXCEPT !.user_traits = user_traits]
    /\ ret' = result
    /\ UNCHANGED <<assign, blocks, now, pc, call, logs, txn>>

\* routes/survey.py 149-156
survey_reconcile ==
    SurveyStep(Upsert(recon, [user_id |-> 1] @@ Reconciled(call.current, call.latest,
                                                          _definitions_for_slug(call.stored))),
               survey.user_traits,
               [op |-> "reconcile", patch |-> <<>>, is_complete |-> FALSE, traits |-> None])

\* routes/survey.py 139-146
survey_status ==
    \E status \in {get_user_survey_status(recon)} :
        SurveyStep(status.table, survey.user_traits,
                   [op |-> "status", patch |-> <<>>, is_complete |-> status.is_complete, traits |-> None])

\* routes/survey.py 160-183; an exception leaves the session uncommitted
survey_continue(answers) ==
    \E table \in {upsert_reconciled_answers(recon, answers)} :
    \E out \in {recompute_user_traits_if_ready(table, survey.user_traits)} :
        IF out.result = "raised"
        THEN SurveyStep(recon, survey.user_traits,
                        [op |-> "continue", patch |-> answers, is_complete |-> FALSE, traits |-> "raised"])
        ELSE SurveyStep(out.table, out.user_traits,
                        [op |-> "continue", patch |-> answers,
                         is_complete |-> /\ ~get_user_survey_status(recon).is_complete
                                         /\ \A i \in StateRows(table) : table[i].missing_question_ids = {},
                         traits |-> out.result])

\* survey_reconciliation.py 556-563, and the commit of reconcile_all_users
reconcile_and_recompute_user ==
    \E table \in {Upsert(recon, [user_id |-> 1] @@ Reconciled(call.current, call.latest,
                                                             _definitions_for_slug(call.stored)))} :
    \E out \in {recompute_user_traits_if_ready(table, survey.user_traits)} :
        IF out.result = "raised"
        THEN SurveyStep(recon, survey.user_traits,
                        [op |-> "reconcile_all", patch |-> <<>>, is_complete |-> FALSE, traits |-> "raised"])
        ELSE SurveyStep(out.table, out.user_traits,
                        [op |-> "reconcile_all", patch |-> <<>>, is_complete |-> FALSE, traits |-> out.result])

AnswerPatches ==
    UNION {[D -> {"yes", "no", "x", ""}] : D \in (SUBSET {"Q1", "Q2"}) \ {{}}}

NextSurvey ==
    \/ survey_reconcile
    \/ survey_status
    \/ \E answers \in {a \in AnswerPatches : /\ "Q1" \in DOMAIN a => a["Q1"] \in {"yes", "no"}
                                             /\ "Q2" \in DOMAIN a => a["Q2"] \in {"x", ""}} :
          survey_continue(answers)
    \/ reconcile_and_recompute_user
SpecSurvey == InitSurvey /\ [][NextSurvey]_vars

\* the required questions of the active definition that the answers show and
\* leave without a value
VisibleRequiredLacking(answers) ==
    {qid \in _get_visible_required_questions(call.current, answers) : AnswerOf(answers, qid) \in {None, ""}}

\* C26: after a reconciliation or an answer patch, the persisted missing list
\* holds no required question that the merged answers hide, and the persisted
\* needs_retake is true exactly when a required, visible question has no
\* answer.
C26_PersistedMissingVisible ==
    \A i \in StateRows(recon) :
        /\ recon[i].missing_question_ids \subseteq _get_visible_required_questions(call.current, recon[i].answers_current)
        /\ recon[i].needs_retake <=> VisibleRequiredLacking(recon[i].answers_current) # {}

\* C28: once an answer patch has made the user's state complete, a
\* reconciliation run against the same active definition leaves the patched
\* values in the merged answers and the missing list empty.
C28_PatchSurvivesReconcile ==
    [][(/\ ret.op = "continue"
        /\ ret.is_complete
        /\ ret'.op \in {"reconcile", "reconcile_all"}
        /\ ret'.traits # "raised")
       => \A i \in StateRows(recon') :
             /\ \A qid \in DOMAIN ret.patch :
                   qid \in DOMAIN recon'[i].answers_current /\ recon'[i].answers_current[qid] = ret.patch[qid]
             /\ recon'[i].missing_question_ids = {}]_vars

(***************************************************************************)
(* The trait profile of one user while the administrator changes the       *)
(* active definition.  The service starts with version 1 (Q1 alone)        *)
(* bootstrapped and the user in a session of that version that has         *)
(* answered Q1; definition_json is the screens of a definition.  call is   *)
(* RuntimeView of the tables.                                              *)
(***************************************************************************)
ProfileContents ==
    {d.screens : d \in {e \in Definitions(1) :
                            /\ OneScreen(e)
                            /\ \A i \in DOMAIN ItemsOf(e.screens) :
                                  /\ ItemsOf(e.screens)[i].question.text = "p"
                                  /\ ItemsOf(e.screens)[i].rules = <<>>
                                  /\ ~ItemsOf(e.screens)[i].question.allow_skip}}

InitProfile ==
    /\ assign = [k \in Weeks \X Users |-> NoRow]
    /\ blocks = {}
    /\ now = 0
    /\ logs = {}
    /\ txn = [pc |-> "idle"]
    /\ recon = <<>>
    /\ pc = "survey"
    /\ ret = [op |-> None, id |-> 0]
    /\ \E c \in {x \in ProfileContents : Len(x[1]) = 1} :
       \E t \in {<<DefinitionRow(1, "published", TRUE, c)>>} :
       \E session \in {<<[survey_hash |-> sha256_hex(DefinitionOf(t[1])), survey_version |-> 1,
                           answers |-> [q \in {"Q1"} |-> "yes"], status |-> "in_progress"]>>} :
           /\ survey = [definition |-> t, session |-> session, user_traits |-> <<>>]
           /\ call = RuntimeView(t, session)

\* main.py 303-435 for the user's session; compute_traits raises as in
\* recompute_user_traits_if_ready, and the session is then rolled back
repo_complete_session ==
    \E table \in {Upsert(recon, [user_id |-> 1] @@ Reconciled(call.current, call.latest,
                                                             _definitions_for_slug(call.stored)))} :
    \E status \in {get_user_survey_status(table)} :
    \E runtime \in {get_active_survey_runtime(call.current)} :
        LET session == survey.session[1]
            existing == {i \in DOMAIN survey.user_traits :
                            survey.user_traits[i].survey_version = session.survey_version}
            row == [survey_version |-> session.survey_version, computed_for_survey_hash |-> runtime.hash,
                    traits_schema_version |-> TRAITS_VERSION, answers |-> status.answers_current]
            completed == <<[session EXCEPT !.status = "completed"]>>
        IN  IF runtime.version = 1 /\ _required_missing_codes(call.current, status.answers_current) # {}
            THEN /\ ret' = [op |-> "complete", id |-> 0, traits |-> "raised"]
                 /\ UNCHANGED <<assign, blocks, now, pc, call, logs, txn, recon, survey>>
            ELSE /\ recon' = status.table
                 /\ survey' = [survey EXCEPT !.session = completed,
                                             !.user_traits = IF existing = {} THEN Append(@, row)
                                                             ELSE [i \in DOMAIN @ |->
                                                                      IF i \in existing THEN row ELSE @[i]]]
                 /\ call' = RuntimeView(survey.definition, completed)
                 /\ ret' = [op |-> "complete", id |-> 0, traits |-> "computed"]
                 /\ UNCHANGED <<assign, blocks, now, pc, logs, txn>>

\* The administrator publishes a draft only after changing it: no published
\* row holds its definition_json (so two versions never share a hash).
DraftChanged ==
    LET t == survey.definition
        d == LatestDraft(t)
    IN  d # 0 => \A i \in DOMAIN t : t[i].status = "published" => t[i].definition_json # t[d].definition_json

NextProfile ==
    \/ create_draft_from_active
    \/ \E c \in ProfileContents : update_latest_draft(c)
    \/ DraftChanged /\ publish_latest_draft
    \/ \E v \in 1..MaxDefinitions : rollback_to_published_version(v)
    \/ repo_complete_session
    \/ reconcile_and_recompute_user
SpecProfile == InitProfile /\ [][NextProfile]_vars

OrderPoolSize == 5
TraitX25 == V3Traits("yes", 50, 50, 50, 50, 25)
Rotated(rows) == IF rows = <<>> THEN rows ELSE Append(Tail(rows), Head(rows))
Reorderings == {"same", "reversed", "rotated"}
Reordered(rows, how) ==
    IF how = "reversed" THEN Ordered(rows, TRUE)
    ELSE IF how = "rotated" THEN Rotated(rows)
    ELSE rows

OrderCalls ==
    {[users |-> [i \in 1..OrderPoolSize |-> HeteroUser(i, t[i])], min_score |-> MIN_SCORE,
      top_k |-> k, mode |-> m, week_start_date |-> 0, users_order |-> uo, pairs_order |-> po] :
        t \in [1..OrderPoolSize -> {TraitX0, TraitX25, TraitX75}], k \in 1..MaxTopK, m \in MatchModes,
        uo \in Reorderings, po \in Reorderings}

InitOrder ==
    /\ DbEmpty
    /\ pc = "stable_match"
    /\ call \in OrderCalls
    /\ ret = [pairs |-> build_candidate_pairs(call.users, {}, {}), first |-> <<>>, second |-> <<>>]

CallStableMatchFirst ==
    /\ pc = "stable_match"
    /\ ret' = [ret EXCEPT !.first = stable_match(call.users, ret.pairs, call.min_score, call.top_k,
                                                call.mode, call.week_start_date)]
    /\ pc' = "again"
    /\ UNCHANGED <<call, dbVars>>

CallStableMatchReordered ==
    /\ pc = "again"
    /\ ret' = [ret EXCEPT !.second = stable_match(Reordered(call.users, call.users_order),
                                                 Reordered(ret.pairs, call.pairs_order),
                                                 call.min_score, call.top_k, call.mode,
                                                 call.week_start_date)]
    /\ pc' = "returned"
    /\ UNCHANGED <<call, dbVars>>

NextOrder == CallStableMatchFirst \/ CallStableMatchReordered
SpecOrder == InitOrder /\ [][NextOrder]_vars

SamePairs == SeqToSet(ret.first) = SeqToSet(ret.second)

\* C29: stable_match returns the same set of pairs for the same users,
\* candidate pairs, min_score, top_k, mode and week whatever the order of the
\* users list and of the candidate-pairs list, on the bipartite path and on
\* the general path.
C29_OrderIndependent == pc = "returned" => SamePairs

\* the part of C29 that is about the general path
GeneralOrderIndependent ==
    (pc = "returned" /\ call.mode # "stable_bipartite_if_possible") => SamePairs

(***************************************************************************)
(* The run followed statement by statement, with its scheduling: the       *)
(* request thread executes the run's next statement whenever that          *)
(* statement can proceed (an enqueue_notification call that does not wait, *)
(* then the commit).  An exception (RunAbort) may or may not happen.       *)
(***************************************************************************)
SpecRunFair == Init /\ [][NextRun]_vars /\ WF_vars(RunEnqueue) /\ WF_vars(RunCommit)

\* C30: a forced weekly re-run (one that has deleted rows of the week) always
\* ends, by its commit or by an abort: no statement of it waits for a row
\* that the run's own open session has deleted.
C30_ForcedRunTerminates ==
    (txn.pc = "open" /\ txn.plan.deleted > 0) ~> (txn.pc = "idle")

\* the same for a run that found no row of the week
FirstRunTerminates ==
    (txn.pc = "open" /\ txn.plan.deleted = 0) ~> (txn.pc = "idle")

====
